---- MODULE Spec2Model ----
(***************************************************************************)
(* A model of mystem_sonitor.py: the health-colour mapping, the byte-rate  *)
(* formatter and the widget/config state machine around them.              *)
(*                                                                         *)
(* Python floats are IEEE-754 binary64 numbers.  They are modelled bit for *)
(* bit: a float is a record [s, m, e] standing for (-1)^s * m * 2^e with   *)
(* m = 0 or 2^52 <= m < 2^53, and every arithmetic step rounds to nearest, *)
(* ties to even, as the hardware does.  The 53-bit significands do not fit *)
(* the model checker's integers, so they are kept as little-endian         *)
(* sequences of 15-bit limbs.  Infinities, NaN and subnormals are outside  *)
(* the model (no input of the model comes near them), and -0.0 is          *)
(* identified with 0.0, which Python's == does as well.                    *)
(***************************************************************************)
EXTENDS Integers, Sequences, FiniteSets, TLC

(***************************************************************************)
(* Natural numbers of any size: little-endian sequences of limbs below     *)
(* Base, without leading zero limbs; <<>> is 0.                            *)
(***************************************************************************)
Base == 2^15

RECURSIVE BNorm(_)
BNorm(a) ==
    IF a = <<>> THEN a
    ELSE IF a[Len(a)] = 0 THEN BNorm(SubSeq(a, 1, Len(a) - 1))
    ELSE a

RECURSIVE BFromInt(_)
BFromInt(n) ==
    IF n = 0 THEN <<>> ELSE <<n % Base>> \o BFromInt(n \div Base)

RECURSIVE BAddC(_, _, _)
BAddC(a, b, c) ==
    IF a = <<>> /\ b = <<>> THEN (IF c = 0 THEN <<>> ELSE <<c>>)
    ELSE LET x == IF a = <<>> THEN 0 ELSE Head(a)
             y == IF b = <<>> THEN 0 ELSE Head(b)
             s == x + y + c
         IN  <<s % Base>> \o BAddC(IF a = <<>> THEN a ELSE Tail(a),
                                   IF b = <<>> THEN b ELSE Tail(b),
                                   s \div Base)

BAdd(a, b) == BAddC(a, b, 0)

\* a - b for a >= b
RECURSIVE BSubC(_, _, _)
BSubC(a, b, c) ==
    IF a = <<>> THEN <<>>
    ELSE LET y == IF b = <<>> THEN 0 ELSE Head(b)
             d == Head(a) - y - c
         IN  <<d % Base>> \o BSubC(Tail(a),
                                   IF b = <<>> THEN b ELSE Tail(b),
                                   IF d < 0 THEN 1 ELSE 0)

BSub(a, b) == BNorm(BSubC(a, b, 0))

\* -1, 0, 1 as a < b, a = b, a > b
RECURSIVE BCmpTop(_, _, _)
BCmpTop(a, b, i) ==
    IF i = 0 THEN 0
    ELSE IF a[i] < b[i] THEN -1
    ELSE IF a[i] > b[i] THEN 1
    ELSE BCmpTop(a, b, i - 1)

BCmp(a, b) ==
    IF Len(a) < Len(b) THEN -1
    ELSE IF Len(a) > Len(b) THEN 1
    ELSE BCmpTop(a, b, Len(a))

\* a * k + c for 0 <= k, c < Base
RECURSIVE BMulSmallC(_, _, _)
BMulSmallC(a, k, c) ==
    IF a = <<>> THEN (IF c = 0 THEN <<>> ELSE <<c>>)
    ELSE LET p == Head(a) * k + c
         IN  <<p % Base>> \o BMulSmallC(Tail(a), k, p \div Base)

BMulSmall(a, k) == BNorm(BMulSmallC(a, k, 0))

RECURSIVE BMul(_, _)
BMul(a, b) ==
    IF a = <<>> \/ b = <<>> THEN <<>>
    ELSE BAdd(BMulSmall(a, Head(b)), BNorm(<<0>> \o BMul(a, Tail(b))))

\* [q, r] with a = q * k + r, 0 <= r < k, for 0 < k < Base
RECURSIVE BDivSmallTop(_, _, _, _)
BDivSmallTop(a, k, i, r) ==
    IF i = 0 THEN [q |-> <<>>, r |-> r]
    ELSE LET rest == BDivSmallTop(a, k, i - 1, (r * Base + a[i]) % k)
         IN  [q |-> rest.q \o <<(r * Base + a[i]) \div k>>, r |-> rest.r]

NormQ(d) == [q |-> BNorm(d.q), r |-> d.r]

BDivSmall(a, k) == NormQ(BDivSmallTop(a, k, Len(a), 0))

Zeros(n) == [i \in 1..n |-> 0]

\* a * 2^n
BShl(a, n) ==
    IF a = <<>> THEN a
    ELSE Zeros(n \div 15) \o BMulSmall(a, 2^(n % 15))

\* floor(a / 2^n)
BShr(a, n) ==
    IF Len(a) <= n \div 15 THEN <<>>
    ELSE BDivSmall(SubSeq(a, (n \div 15) + 1, Len(a)), 2^(n % 15)).q

RECURSIVE IntBitLen(_)
IntBitLen(n) == IF n = 0 THEN 0 ELSE 1 + IntBitLen(n \div 2)

BBitLen(a) == IF a = <<>> THEN 0 ELSE 15 * (Len(a) - 1) + IntBitLen(a[Len(a)])

BIsOdd(a) == a # <<>> /\ a[1] % 2 = 1

(***************************************************************************)
(* binary64 arithmetic.  RoundPack(s, n, e, sticky) is the float nearest   *)
(* to (-1)^s * v, ties to even, where v = n * 2^e when sticky is FALSE and *)
(* n * 2^e < v < (n + 1) * 2^e when it is TRUE (n then has 55 bits or      *)
(* more).  Its steps: count the bits of n, cut n to its top 53 bits q,     *)
(* compare what was cut off with half a unit of q, round, renormalise.     *)
(***************************************************************************)
FZero == [s |-> 0, m |-> <<>>, e |-> 0]

Renormal(s, e, q) ==
    IF BBitLen(q) > 53 THEN [s |-> s, m |-> BShr(q, 1), e |-> e + 1]
    ELSE [s |-> s, m |-> q, e |-> e]

RoundUp(s, e, q, c, sticky) ==
    Renormal(s, e, IF c > 0 \/ (c = 0 /\ (sticky \/ BIsOdd(q)))
                   THEN BAdd(q, <<1>>) ELSE q)

RoundCut(s, n, e, sticky, sh, q) ==
    RoundUp(s, e + sh, q, BCmp(BSub(n, BShl(q, sh)), BShl(<<1>>, sh - 1)), sticky)

RoundBits(s, n, e, sticky, L) ==
    IF L <= 53 THEN [s |-> s, m |-> BShl(n, 53 - L), e |-> e - (53 - L)]
    ELSE RoundCut(s, n, e, sticky, L - 53, BShr(n, L - 53))

RoundPack(s, n, e, sticky) ==
    IF n = <<>> THEN FZero ELSE RoundBits(s, n, e, sticky, BBitLen(n))

\* int -> float
FromInt(n) == RoundPack(IF n < 0 THEN 1 ELSE 0, BFromInt(IF n < 0 THEN -n ELSE n), 0, FALSE)

FNeg(x) == IF x.m = <<>> THEN x ELSE [x EXCEPT !.s = 1 - x.s]

\* the sum of (-1)^sx * X * 2^e and (-1)^sy * Y * 2^e, c = BCmp(X, Y)
FAddAligned(sx, sy, X, Y, e, c) ==
    RoundPack(IF sx = sy \/ c >= 0 THEN sx ELSE sy,
              IF sx = sy THEN BAdd(X, Y) ELSE IF c >= 0 THEN BSub(X, Y) ELSE BSub(Y, X),
              e, FALSE)

FAddAt(x, y, X, Y, e) == FAddAligned(x.s, y.s, X, Y, e, BCmp(X, Y))

FAddExp(x, y, e) == FAddAt(x, y, BShl(x.m, x.e - e), BShl(y.m, y.e - e), e)

\* x + y
FAdd(x, y) ==
    IF x.m = <<>> THEN y
    ELSE IF y.m = <<>> THEN x
    ELSE FAddExp(x, y, IF x.e < y.e THEN x.e ELSE y.e)

\* x - y
FSub(x, y) == FAdd(x, FNeg(y))

\* x * y
FMul(x, y) ==
    IF x.m = <<>> \/ y.m = <<>> THEN FZero
    ELSE RoundPack((x.s + y.s) % 2, BMul(x.m, y.m), x.e + y.e, FALSE)

FDivQR(s, e, d) == RoundPack(s, d.q, e, d.r # 0)

\* x / k for an integer 0 < k < Base
FDivInt(x, k) ==
    IF x.m = <<>> THEN FZero
    ELSE FDivQR(x.s, x.e - 30, BDivSmall(BShl(x.m, 30), k))

FCmpMag(x, y, mag) ==
    IF x.m = <<>> /\ y.m = <<>> THEN 0
    ELSE IF x.m = <<>> THEN (IF y.s = 1 THEN 1 ELSE -1)
    ELSE IF y.m = <<>> THEN (IF x.s = 1 THEN -1 ELSE 1)
    ELSE IF x.s # y.s THEN (IF x.s = 1 THEN -1 ELSE 1)
    ELSE IF x.s = 1 THEN -mag ELSE mag

\* -1, 0, 1 as x < y, x = y, x > y
FCmp(x, y) ==
    FCmpMag(x, y, IF x.e # y.e THEN (IF x.e < y.e THEN -1 ELSE 1) ELSE BCmp(x.m, y.m))

FLe(x, y) == FCmp(x, y) <= 0
FLt(x, y) == FCmp(x, y) < 0

\* The float a decimal literal n/d denotes (d a power of ten below Base).
Dec(n, d) == FDivInt(FromInt(n), d)

\* Python's min(a, b) and max(a, b) of two numbers: the first argument wins ties.
PyMin(a, b) == IF FLt(b, a) THEN b ELSE a
PyMax(a, b) == IF FLt(a, b) THEN b ELSE a

(***************************************************************************)
(* Themes.  Only the three colour stops of a theme are modelled; its other *)
(* entries are CSS strings that no modelled operation reads.  A colour is  *)
(* a tuple of floats; RGB writes one from its two-decimal literals.        *)
(***************************************************************************)
RGB(r, g, b) == <<Dec(r, 100), Dec(g, 100), Dec(b, 100)>>

THEME_ORDER == <<"default", "ocean", "sunset", "matrix", "nord", "purple">>

THEMES_TABLE ==
    [n \in {THEME_ORDER[i] : i \in 1..Len(THEME_ORDER)} |->
        CASE n = "default" -> [good |-> RGB(30, 85, 40), warn |-> RGB(100, 75, 20),
                               danger |-> RGB(100, 35, 30)]
          [] n = "ocean"   -> [good |-> RGB(0, 75, 90), warn |-> RGB(30, 90, 70),
                               danger |-> RGB(95, 45, 55)]
          [] n = "sunset"  -> [good |-> RGB(100, 55, 45), warn |-> RGB(100, 85, 35),
                               danger |-> RGB(100, 30, 40)]
          [] n = "matrix"  -> [good |-> RGB(0, 100, 25), warn |-> RGB(50, 100, 0),
                               danger |-> RGB(100, 25, 25)]
          [] n = "nord"    -> [good |-> RGB(53, 75, 82), warn |-> RGB(92, 80, 55),
                               danger |-> RGB(75, 38, 42)]
          [] n = "purple"  -> [good |-> RGB(74, 58, 98), warn |-> RGB(100, 72, 42),
                               danger |-> RGB(100, 33, 44)]]

(***************************************************************************)
(* get_health_color.  A call either returns a colour or raises: a missing  *)
(* key is a KeyError, a stop with fewer than three channels an IndexError  *)
(* on the branch that indexes it.                                          *)
(***************************************************************************)
Return(v) == [kind |-> "return", value |-> v]
Raise(x)  == [kind |-> "raise", exc |-> x]

\* a + t * (b - a), one channel of lines 135-139 and 142-146
Lerp(a, t, b) == FAdd(a, FMul(t, FSub(b, a)))

\* one colour between two stops: lines 135-139 and 142-146
Interp(a, t, b) == <<Lerp(a[1], t, b[1]), Lerp(a[2], t, b[2]), Lerp(a[3], t, b[3])>>

\* Variants of get_health_color, each with one slip, against which the
\* properties below are tried: the first breakpoint at 25, the first segment
\* 50 wide, the factor t not capped at 1, and a channel index one too far.
get_health_color_breakpoint(percent, theme) ==
    IF ~ ({"good", "warn", "danger"} \subseteq DOMAIN theme) THEN Raise("KeyError")
    ELSE IF FLe(percent, FromInt(25)) THEN Return(theme["good"])
    ELSE IF FLe(percent, FromInt(75))
    THEN Return(Interp(theme["good"],
                       FDivInt(FSub(percent, FromInt(50)), 25),
                       theme["warn"]))
    ELSE Return(Interp(theme["warn"],
                       PyMin(FromInt(1), FDivInt(FSub(percent, FromInt(75)), 25)),
                       theme["danger"]))

get_health_color_width(percent, theme) ==
    IF ~ ({"good", "warn", "danger"} \subseteq DOMAIN theme) THEN Raise("KeyError")
    ELSE IF FLe(percent, FromInt(50)) THEN Return(theme["good"])
    ELSE IF FLe(percent, FromInt(75))
    THEN Return(Interp(theme["good"],
                       FDivInt(FSub(percent, FromInt(50)), 50),
                       theme["warn"]))
    ELSE Return(Interp(theme["warn"],
                       PyMin(FromInt(1), FDivInt(FSub(percent, FromInt(75)), 25)),
                       theme["danger"]))

get_health_color_uncapped(percent, theme) ==
    IF ~ ({"good", "warn", "danger"} \subseteq DOMAIN theme) THEN Raise("KeyError")
    ELSE IF FLe(percent, FromInt(50)) THEN Return(theme["good"])
    ELSE IF FLe(percent, FromInt(75))
    THEN Return(Interp(theme["good"],
                       FDivInt(FSub(percent, FromInt(50)), 25),
                       theme["warn"]))
    ELSE Return(Interp(theme["warn"],
                       FDivInt(FSub(percent, FromInt(75)), 25),
                       theme["danger"]))

get_health_color_index(percent, theme) ==
    IF ~ ({"good", "warn", "danger"} \subseteq DOMAIN theme) THEN Raise("KeyError")
    ELSE IF FLe(percent, FromInt(50)) THEN Return(theme["good"])
    ELSE IF FLe(percent, FromInt(75))
    THEN IF Len(theme["good"]) < 4 \/ Len(theme["warn"]) < 4 THEN Raise("IndexError")
         ELSE Return(Interp(theme["good"],
                            FDivInt(FSub(percent, FromInt(50)), 25),
                            theme["warn"]))
    ELSE IF Len(theme["warn"]) < 4 \/ Len(theme["danger"]) < 4 THEN Raise("IndexError")
         ELSE Return(Interp(theme["warn"],
                            PyMin(FromInt(1), FDivInt(FSub(percent, FromInt(75)), 25)),
                            theme["danger"]))

get_health_color(percent, theme) ==
    IF ~ ({"good", "warn", "danger"} \subseteq DOMAIN theme) THEN Raise("KeyError")
    ELSE IF FLe(percent, FromInt(50)) THEN Return(theme["good"])
    ELSE IF FLe(percent, FromInt(75))
    THEN IF Len(theme["good"]) < 3 \/ Len(theme["warn"]) < 3 THEN Raise("IndexError")
         ELSE Return(Interp(theme["good"],
                            FDivInt(FSub(percent, FromInt(50)), 25),
                            theme["warn"]))
    ELSE IF Len(theme["warn"]) < 3 \/ Len(theme["danger"]) < 3 THEN Raise("IndexError")
         ELSE Return(Interp(theme["warn"],
                            PyMin(FromInt(1), FDivInt(FSub(percent, FromInt(75)), 25)),
                            theme["danger"]))

\* get_health_color that keeps the colour it blended as the theme's good stop
get_health_color_theme_blended(percent, theme) ==
    IF get_health_color(percent, theme).kind = "return"
    THEN [theme EXCEPT !.good = get_health_color(percent, theme).value]
    ELSE theme

\* the dict passed as theme, after the call: the body reads theme["good"],
\* theme["warn"] and theme["danger"] and assigns to no key of it
get_health_color_theme(percent, theme) == theme

\* BaseWidget.set_value: the value a widget keeps
BaseWidget_set_value(value) == PyMin(FromInt(100), PyMax(FromInt(0), value))

(***************************************************************************)
(* The byte-rate formatters.  A rate is an int (the difference of two OS   *)
(* counters), text is a string.  v / 1024**k is exact in binary64 for the  *)
(* rates of the model (below 2^31), and the 'f' format rounds the exact    *)
(* value to the digits asked for, ties to even.                            *)
(***************************************************************************)
Digit(d) == SubSeq("0123456789", d + 1, d + 1)

RECURSIVE NatToStr(_)
NatToStr(n) == IF n < 10 THEN Digit(n) ELSE NatToStr(n \div 10) \o Digit(n % 10)

\* str(n) of an int
IntToStr(n) == IF n < 0 THEN "-" \o NatToStr(-n) ELSE NatToStr(n)

RECURSIVE BToInt(_)
BToInt(a) == IF a = <<>> THEN 0 ELSE Head(a) + Base * BToInt(Tail(a))

\* n / 2^k rounded to an integer, ties to even; q = floor(n / 2^k)
RoundHalfEvenAt(n, k, q) ==
    IF k = 0 THEN BToInt(q)
    ELSE IF BCmp(BSub(n, BShl(q, k)), BShl(<<1>>, k - 1)) > 0 THEN BToInt(q) + 1
    ELSE IF BCmp(BSub(n, BShl(q, k)), BShl(<<1>>, k - 1)) = 0 /\ BIsOdd(q) THEN BToInt(q) + 1
    ELSE BToInt(q)

RoundHalfEven(n, k) == RoundHalfEvenAt(n, k, BShr(n, k))

\* the digits of a number given in units of 10^-nd, nd = 0 or 1
FixedDigits(sign, u, nd) ==
    sign \o (IF nd = 0 THEN NatToStr(u)
             ELSE NatToStr(u \div 10) \o "." \o Digit(u % 10))

\* f"{v / 2**k:.{nd}f}" for an int v
FormatFixed(v, k, nd) ==
    FixedDigits(IF v < 0 THEN "-" ELSE "",
                RoundHalfEven(BMulSmall(BFromInt(IF v < 0 THEN -v ELSE v),
                                        IF nd = 0 THEN 1 ELSE 10), k),
                nd)

\* IOWidget._fmt_long with <= where the code has <
IOWidget_fmt_long_inclusive(v) ==
    IF v <= 1024 THEN FormatFixed(v, 0, 0) \o " B/s"
    ELSE IF v <= 1024^2 THEN FormatFixed(v, 10, 1) \o " KB/s"
    ELSE IF v <= 1024^3 THEN FormatFixed(v, 20, 1) \o " MB/s"
    ELSE FormatFixed(v, 30, 1) \o " GB/s"

\* IOWidget._fmt_long with no decimal in the KB/s range
IOWidget_fmt_long_nodecimal(v) ==
    IF v < 1024 THEN FormatFixed(v, 0, 0) \o " B/s"
    ELSE IF v < 1024^2 THEN FormatFixed(v, 10, 0) \o " KB/s"
    ELSE IF v < 1024^3 THEN FormatFixed(v, 20, 1) \o " MB/s"
    ELSE FormatFixed(v, 30, 1) \o " GB/s"

\* IOWidget._fmt_long dividing by 1024 in the MB/s range too
IOWidget_fmt_long_unit(v) ==
    IF v < 1024 THEN FormatFixed(v, 0, 0) \o " B/s"
    ELSE IF v < 1024^2 THEN FormatFixed(v, 10, 1) \o " KB/s"
    ELSE IF v < 1024^3 THEN FormatFixed(v, 10, 1) \o " MB/s"
    ELSE FormatFixed(v, 30, 1) \o " GB/s"

IOWidget_fmt_long(v) ==
    IF v < 1024 THEN FormatFixed(v, 0, 0) \o " B/s"
    ELSE IF v < 1024^2 THEN FormatFixed(v, 10, 1) \o " KB/s"
    ELSE IF v < 1024^3 THEN FormatFixed(v, 20, 1) \o " MB/s"
    ELSE FormatFixed(v, 30, 1) \o " GB/s"

\* IOBarsWidget._fmt_short
IOBarsWidget_fmt_short(v) ==
    IF v < 1024 THEN FormatFixed(v, 0, 0) \o "B"
    ELSE IF v < 1024^2 THEN FormatFixed(v, 10, 0) \o "K"
    ELSE IF v < 1024^3 THEN FormatFixed(v, 20, 1) \o "M"
    ELSE FormatFixed(v, 30, 1) \o "G"

\* IOTextWidget._fmt_short
IOTextWidget_fmt_short(v) ==
    IF v < 1024 THEN FormatFixed(v, 0, 0) \o "B"
    ELSE IF v < 1024^2 THEN FormatFixed(v, 10, 0) \o "K"
    ELSE IF v < 1024^3 THEN FormatFixed(v, 20, 1) \o "M"
    ELSE FormatFixed(v, 30, 1) \o "G"

\* CompactIOWidget._fmt_short
CompactIOWidget_fmt_short(v) ==
    IF v < 1024 THEN FormatFixed(v, 0, 0) \o "B"
    ELSE IF v < 1024^2 THEN FormatFixed(v, 10, 0) \o "K"
    ELSE IF v < 1024^3 THEN FormatFixed(v, 20, 0) \o "M"
    ELSE FormatFixed(v, 30, 0) \o "G"

(***************************************************************************)
(* Configuration.  A Python dict is a sequence of [k, v] pairs in          *)
(* insertion order, which is the order save() writes them in.              *)
(***************************************************************************)
VIS_MODES == <<"terminal", "gauge", "text", "wave", "glow">>
IO_MODES  == <<"terminal", "bars", "text">>
LAYOUTS   == <<"compact", "wide", "vertical", "mini", "dashboard", "panel">>

Range(q) == {q[i] : i \in 1..Len(q)}

\* list.index(x), 0-based, for x in the list
Index(q, x) == (CHOOSE i \in 1..Len(q) : q[i] = x /\ \A j \in 1..(i - 1) : q[j] # x) - 1

DictHas(d, k) == \E i \in 1..Len(d) : d[i].k = k

\* d.get(k, default)
DictGet(d, k, default) ==
    IF DictHas(d, k) THEN d[CHOOSE i \in 1..Len(d) : d[i].k = k].v ELSE default

\* d[k] = v
DictSet(d, k, v) ==
    IF DictHas(d, k)
    THEN [i \in 1..Len(d) |-> IF d[i].k = k THEN [k |-> k, v |-> v] ELSE d[i]]
    ELSE Append(d, [k |-> k, v |-> v])

\* ConfigManager.__init__ before load()
ConfigDefaults ==
    [layout |-> "compact", vis_mode |-> "terminal", io_mode |-> "terminal",
     theme |-> "default", autostart |-> FALSE, tile_modes |-> <<>>,
     io_tile_modes |-> <<>>, window_x |-> -1, window_y |-> -1, tile_order |-> <<>>]

RECURSIVE Join(_, _)
Join(sep, q) ==
    IF q = <<>> THEN ""
    ELSE IF Len(q) = 1 THEN q[1]
    ELSE q[1] \o sep \o Join(sep, Tail(q))

RECURSIVE DictLines(_, _)
DictLines(prefix, d) ==
    IF d = <<>> THEN ""
    ELSE prefix \o d[1].k \o "=" \o d[1].v \o "\n" \o DictLines(prefix, Tail(d))

\* save writing autostart as str(bool) does, "True" or "False"
ConfigManager_save_strbool(c) ==
    "layout=" \o c.layout \o "\n"
    \o "vis_mode=" \o c.vis_mode \o "\n"
    \o "io_mode=" \o c.io_mode \o "\n"
    \o "theme=" \o c.theme \o "\n"
    \o "autostart=" \o (IF c.autostart THEN "True" ELSE "False") \o "\n"
    \o "window_x=" \o IntToStr(c.window_x) \o "\n"
    \o "window_y=" \o IntToStr(c.window_y) \o "\n"
    \o (IF c.tile_order # <<>> THEN "tile_order=" \o Join(",", c.tile_order) \o "\n" ELSE "")
    \o DictLines("tile_", c.tile_modes)
    \o DictLines("io_", c.io_tile_modes)

\* ConfigManager.save: the text written to the config file
ConfigManager_save(c) ==
    "layout=" \o c.layout \o "\n"
    \o "vis_mode=" \o c.vis_mode \o "\n"
    \o "io_mode=" \o c.io_mode \o "\n"
    \o "theme=" \o c.theme \o "\n"
    \o "autostart=" \o (IF c.autostart THEN "true" ELSE "false") \o "\n"
    \o "window_x=" \o IntToStr(c.window_x) \o "\n"
    \o "window_y=" \o IntToStr(c.window_y) \o "\n"
    \o (IF c.tile_order # <<>> THEN "tile_order=" \o Join(",", c.tile_order) \o "\n" ELSE "")
    \o DictLines("tile_", c.tile_modes)
    \o DictLines("io_", c.io_tile_modes)

(***************************************************************************)
(* ConfigManager.load: the file is read line by line.  Strings are handled *)
(* character by character, as str.strip, str.split and int do.  The file  *)
(* is opened in text mode, so "\r\n" and "\r" end a line as "\n" does.     *)
(* int(v) takes white space around an optional sign and decimal digits    *)
(* with single underscores between them if any; anything else raises       *)
(* ValueError, and so do more than 4300 digits.  The strings of the model  *)
(* are made of the characters a string of the module can hold: those up to *)
(* U+00FF and some beyond, U+1680 and 180 decimal digits among them.  The  *)
(* other white space and decimal digits of Unicode are not in the model,   *)
(* and neither is a file that cannot be decoded.                           *)
(***************************************************************************)
\* the characters str.strip removes, those str.isspace holds of: U+0009 to
\* U+000D, U+001C to U+001F, the space, U+0085, U+00A0 and U+1680
WhiteSpace ==
    {"\t", "\n", "", "\f", "\r", "", "", "", "", " ",
     "", " ", " "}

\* the white space int() takes around a number: the separators U+001C to
\* U+001F are not part of it
IntWhiteSpace == WhiteSpace \ {"", "", "", ""}

\* the decimal digits int takes, those of category Nd, each row from the
\* digit of value 0 to the digit of value 9: the ASCII digits, then the
\* digits from U+06F0, U+07C0, U+09E6, U+0AE6, U+0BE6, U+0CE6, U+0DE6, U+0ED0, U+1090, U+17E0, U+19D0, U+1A80, U+1A90, U+1BB0, U+A8D0, U+A9D0, U+A9F0 and
\* U+ABF0 on
DigitRows ==
    <<"0123456789",
      "۰۱۲۳۴۵۶۷۸۹",
      "߀߁߂߃߄߅߆߇߈߉",
      "০১২৩৪৫৬৭৮৯",
      "૦૧૨૩૪૫૬૭૮૯",
      "௦௧௨௩௪௫௬௭௮௯",
      "೦೧೨೩೪೫೬೭೮೯",
      "෦෧෨෩෪෫෬෭෮෯",
      "໐໑໒໓໔໕໖໗໘໙",
      "႐႑႒႓႔႕႖႗႘႙",
      "០១២៣៤៥៦៧៨៩",
      "᧐᧑᧒᧓᧔᧕᧖᧗᧘᧙",
      "᪀᪁᪂᪃᪄᪅᪆᪇᪈᪉",
      "᪐᪑᪒᪓᪔᪕᪖᪗᪘᪙",
      "᮰᮱᮲᮳᮴᮵᮶᮷᮸᮹",
      "꣐꣑꣒꣓꣔꣕꣖꣗꣘꣙",
      "꧐꧑꧒꧓꧔꧕꧖꧗꧘꧙",
      "꧰꧱꧲꧳꧴꧵꧶꧷꧸꧹",
      "꯰꯱꯲꯳꯴꯵꯶꯷꯸꯹">>

DecimalDigits == {SubSeq(DigitRows[r], d, d) : r \in 1..Len(DigitRows), d \in 1..10}

\* sys.get_int_max_str_digits(): int raises on more digits than this
MaxStrDigits == 4300

\* the position of the first ch in t from position i on, 0 when there is none
IndexFrom(t, ch, i) ==
    IF \A j \in i..Len(t) : SubSeq(t, j, j) # ch THEN 0
    ELSE CHOOSE j \in i..Len(t) :
            SubSeq(t, j, j) = ch /\ \A k \in i..(j - 1) : SubSeq(t, k, k) # ch

\* t without the characters of ws at its start, and at its end
LStripOf(t, ws) ==
    IF \A j \in 1..Len(t) : SubSeq(t, j, j) \in ws THEN ""
    ELSE SubSeq(t, CHOOSE j \in 1..Len(t) :
                      SubSeq(t, j, j) \notin ws /\ \A k \in 1..(j - 1) : SubSeq(t, k, k) \in ws,
                Len(t))

RStripOf(t, ws) ==
    IF \A j \in 1..Len(t) : SubSeq(t, j, j) \in ws THEN ""
    ELSE SubSeq(t, 1, CHOOSE j \in 1..Len(t) :
                         SubSeq(t, j, j) \notin ws
                         /\ \A k \in (j + 1)..Len(t) : SubSeq(t, k, k) \in ws)

\* str.lstrip, str.rstrip and str.strip
LStrip(t) == LStripOf(t, WhiteSpace)

RStrip(t) == RStripOf(t, WhiteSpace)

Strip(t) == RStrip(LStrip(t))

\* the white space int() skips before and after the number
IntStrip(t) == RStripOf(LStripOf(t, IntWhiteSpace), IntWhiteSpace)

\* t.split(sep) for a one-character sep
RECURSIVE Split(_, _)
SplitAt(t, sep, i) ==
    IF i = 0 THEN <<t>>
    ELSE <<SubSeq(t, 1, i - 1)>> \o Split(SubSeq(t, i + 1, Len(t)), sep)

Split(t, sep) == SplitAt(t, sep, IndexFrom(t, sep, 1))

\* the position of the first line end character of t from position i on, 0
\* when there is none
LineEndFrom(t, i) ==
    IF \A j \in i..Len(t) : SubSeq(t, j, j) \notin {"\r", "\n"} THEN 0
    ELSE CHOOSE j \in i..Len(t) :
            /\ SubSeq(t, j, j) \in {"\r", "\n"}
            /\ \A k \in i..(j - 1) : SubSeq(t, k, k) \notin {"\r", "\n"}

\* what follows the line end at position i: "\r\n" is one line end
AfterLineEnd(t, i) ==
    IF SubSeq(t, i, i) = "\r" /\ i < Len(t) /\ SubSeq(t, i + 1, i + 1) = "\n"
    THEN SubSeq(t, i + 2, Len(t))
    ELSE SubSeq(t, i + 1, Len(t))

\* the text as a file opened in text mode gives it: "\r\n" and a "\r" on its
\* own are read as "\n"
RECURSIVE UniversalNewlines(_)
NewlinesAt(t, i) ==
    IF i = 0 THEN t
    ELSE SubSeq(t, 1, i - 1) \o "\n" \o UniversalNewlines(AfterLineEnd(t, i))

UniversalNewlines(t) == NewlinesAt(t, LineEndFrom(t, 1))

\* the lines of a text whose line ends are "\n", without their line ends
LinesOf(t) ==
    IF Len(t) = 0 THEN <<>>
    ELSE IF SubSeq(t, Len(t), Len(t)) = "\n" THEN Split(SubSeq(t, 1, Len(t) - 1), "\n")
    ELSE Split(t, "\n")

\* the lines a text file yields, without their line ends
FileLines(t) == LinesOf(UniversalNewlines(t))

StartsWith(t, prefix) == Len(t) >= Len(prefix) /\ SubSeq(t, 1, Len(prefix)) = prefix

\* digits, with single underscores between them if any
DigitGroups(t) ==
    /\ Len(t) > 0
    /\ SubSeq(t, 1, 1) \in DecimalDigits
    /\ SubSeq(t, Len(t), Len(t)) \in DecimalDigits
    /\ \A i \in 1..Len(t) : SubSeq(t, i, i) \in DecimalDigits \cup {"_"}
    /\ \A i \in 1..(Len(t) - 1) : SubSeq(t, i, i + 1) # "__"

\* the value of a decimal digit
DigitOf(ch) ==
    CHOOSE d \in 0..9 : \E r \in 1..Len(DigitRows) : SubSeq(DigitRows[r], d + 1, d + 1) = ch

\* how many digits t has, its underscores not counted
DigitCount(t) == Cardinality({i \in 1..Len(t) : SubSeq(t, i, i) # "_"})

\* a digit of value 0, or an underscore
ZeroOrUnderscore(ch) == ch = "_" \/ DigitOf(ch) = 0

\* t from its first digit other than a zero on
Significant(t) ==
    IF \A j \in 1..Len(t) : ZeroOrUnderscore(SubSeq(t, j, j)) THEN ""
    ELSE SubSeq(t, CHOOSE j \in 1..Len(t) :
                      /\ ~ ZeroOrUnderscore(SubSeq(t, j, j))
                      /\ \A k \in 1..(j - 1) : ZeroOrUnderscore(SubSeq(t, k, k)),
                Len(t))

\* the number the digits of t spell, its underscores passed over
RECURSIVE NatOfDigits(_)
NatOfDigits(t) ==
    IF Len(t) = 0 THEN 0
    ELSE IF SubSeq(t, Len(t), Len(t)) = "_" THEN NatOfDigits(SubSeq(t, 1, Len(t) - 1))
    ELSE 10 * NatOfDigits(SubSeq(t, 1, Len(t) - 1)) + DigitOf(SubSeq(t, Len(t), Len(t)))

DigitsToNat(t) == NatOfDigits(Significant(t))

\* int of digits t after a sign: the value, or ValueError
PyIntDigits(t, sign) ==
    IF DigitGroups(t) /\ DigitCount(t) <= MaxStrDigits
    THEN [raised |-> FALSE, value |-> sign * DigitsToNat(t)]
    ELSE [raised |-> TRUE, value |-> 0]

\* int(v) of a stripped string: the value, or ValueError
PyIntStripped(t) ==
    IF StartsWith(t, "-") THEN PyIntDigits(SubSeq(t, 2, Len(t)), 0 - 1)
    ELSE IF StartsWith(t, "+") THEN PyIntDigits(SubSeq(t, 2, Len(t)), 1)
    ELSE PyIntDigits(t, 1)

PyInt(v) == PyIntStripped(IntStrip(v))

Loaded(c) == [raised |-> FALSE, config |-> c]

\* window_x = int(v), window_y = int(v)
LoadInt(c, field, n) ==
    IF n.raised THEN [raised |-> TRUE, config |-> c]
    ELSE Loaded([c EXCEPT ![field] = n.value])

\* load with the theme of the file taken as it is
load_entry_unchecked(c, k, v, T) ==
    IF k = "layout" /\ v \in Range(LAYOUTS) THEN Loaded([c EXCEPT !.layout = v])
    ELSE IF k = "vis_mode" /\ v \in Range(VIS_MODES) THEN Loaded([c EXCEPT !.vis_mode = v])
    ELSE IF k = "io_mode" /\ v \in Range(IO_MODES) THEN Loaded([c EXCEPT !.io_mode = v])
    ELSE IF k = "theme" THEN Loaded([c EXCEPT !.theme = v])
    ELSE IF k = "autostart" THEN Loaded([c EXCEPT !.autostart = (v = "true")])
    ELSE IF k = "window_x" THEN LoadInt(c, "window_x", PyInt(v))
    ELSE IF k = "window_y" THEN LoadInt(c, "window_y", PyInt(v))
    ELSE IF k = "tile_order" /\ v # "" THEN Loaded([c EXCEPT !.tile_order = Split(v, ",")])
    ELSE IF StartsWith(k, "io_") /\ v \in Range(IO_MODES)
    THEN Loaded([c EXCEPT !.io_tile_modes = DictSet(@, SubSeq(k, 4, Len(k)), v)])
    ELSE IF StartsWith(k, "tile_") /\ v \in Range(VIS_MODES)
    THEN Loaded([c EXCEPT !.tile_modes = DictSet(@, SubSeq(k, 6, Len(k)), v)])
    ELSE Loaded(c)

\* load, the if/elif chain on one key and value
load_entry(c, k, v, T) ==
    IF k = "layout" /\ v \in Range(LAYOUTS) THEN Loaded([c EXCEPT !.layout = v])
    ELSE IF k = "vis_mode" /\ v \in Range(VIS_MODES) THEN Loaded([c EXCEPT !.vis_mode = v])
    ELSE IF k = "io_mode" /\ v \in Range(IO_MODES) THEN Loaded([c EXCEPT !.io_mode = v])
    ELSE IF k = "theme" /\ v \in DOMAIN T THEN Loaded([c EXCEPT !.theme = v])
    ELSE IF k = "autostart" THEN Loaded([c EXCEPT !.autostart = (v = "true")])
    ELSE IF k = "window_x" THEN LoadInt(c, "window_x", PyInt(v))
    ELSE IF k = "window_y" THEN LoadInt(c, "window_y", PyInt(v))
    ELSE IF k = "tile_order" /\ v # "" THEN Loaded([c EXCEPT !.tile_order = Split(v, ",")])
    ELSE IF StartsWith(k, "io_") /\ v \in Range(IO_MODES)
    THEN Loaded([c EXCEPT !.io_tile_modes = DictSet(@, SubSeq(k, 4, Len(k)), v)])
    ELSE IF StartsWith(k, "tile_") /\ v \in Range(VIS_MODES)
    THEN Loaded([c EXCEPT !.tile_modes = DictSet(@, SubSeq(k, 6, Len(k)), v)])
    ELSE Loaded(c)

\* k, v = line.strip().split('=', 1) of a stripped line with '=' at position i
load_stripped(c, line, i, T) ==
    load_entry(c, SubSeq(line, 1, i - 1), SubSeq(line, i + 1, Len(line)), T)

\* load, one line of the file
load_line(c, line, T) ==
    IF IndexFrom(line, "=", 1) = 0 THEN Loaded(c)
    ELSE load_stripped(c, Strip(line), IndexFrom(Strip(line), "=", 1), T)

\* load, the loop over the lines: an exception ends it and is swallowed
RECURSIVE load_lines(_, _, _)
\* load going on with the next line after a line that raised
load_rest_skipping(r, lines, T) == load_lines(r.config, lines, T)

load_rest(r, lines, T) == IF r.raised THEN r.config ELSE load_lines(r.config, lines, T)

load_lines(c, lines, T) ==
    IF lines = <<>> THEN c
    ELSE load_rest(load_line(c, Head(lines), T), Tail(lines), T)

\* ConfigManager(): __init__ and load() of the file f, with THEMES = T
ConfigManager_load(f, T) ==
    IF f.exists THEN load_lines(ConfigDefaults, FileLines(f.text), T)
    ELSE ConfigDefaults

ConfigManager_get_tile_mode(c, name) == DictGet(c.tile_modes, name, c.vis_mode)
ConfigManager_get_io_mode(c, name)   == DictGet(c.io_tile_modes, name, c.io_mode)

\* the element after x without the wrap-around: the last one stays
CycleAfter_nowrap(q, x) ==
    q[IF x \in Range(q) /\ Index(q, x) + 1 < Len(q) THEN Index(q, x) + 2 ELSE Len(q)]

\* the element after x in the list q, the first after the last, the second
\* when x is not in the list
CycleAfter(q, x) == q[(((IF x \in Range(q) THEN Index(q, x) ELSE 0) + 1) % Len(q)) + 1]

\* the config after cycle_tile_mode(name), cycle_io_mode(name), cycle_layout()
\* and cycle_theme(), before their save()
\* cycle_tile_mode going on from the default mode, whatever the tile has stored
ConfigManager_cycle_tile_mode_default(c, name) ==
    [c EXCEPT !.tile_modes = DictSet(@, name, CycleAfter(VIS_MODES, c.vis_mode))]

ConfigManager_cycle_tile_mode(c, name) ==
    [c EXCEPT !.tile_modes =
        DictSet(@, name, CycleAfter(VIS_MODES, ConfigManager_get_tile_mode(c, name)))]

ConfigManager_cycle_io_mode(c, name) ==
    [c EXCEPT !.io_tile_modes =
        DictSet(@, name, CycleAfter(IO_MODES, ConfigManager_get_io_mode(c, name)))]

\* ConfigManager.set_window_pos(x, y): the config before its save()
ConfigManager_set_window_pos(c, x, y) == [c EXCEPT !.window_x = x, !.window_y = y]

\* cycle_layout that also forgets the modes chosen per tile
ConfigManager_cycle_layout_reset(c) ==
    [c EXCEPT !.layout = CycleAfter(LAYOUTS, @), !.tile_modes = <<>>]

ConfigManager_cycle_layout(c) == [c EXCEPT !.layout = CycleAfter(LAYOUTS, @)]

ConfigManager_cycle_theme(c) == [c EXCEPT !.theme = CycleAfter(THEME_ORDER, @)]

(***************************************************************************)
(* Widgets and tiles.  A widget is its class, the value or the two rates   *)
(* it shows, and its theme: a reference to one dict of THEMES, kept as     *)
(* that dict's key.  A tile is a TileContainer holding one widget, with    *)
(* the callback its left click runs.  Left out: the cursor and phase       *)
(* counters of TerminalWidget and WaveWidget and the bar scale of          *)
(* IOBarsWidget, which only the drawing of the decoration reads.           *)
(***************************************************************************)
RegularClasses ==
    {"TerminalWidget", "GaugeWidget", "TextWidget", "WaveWidget", "GlowWidget",
     "CompactWidget"}

\* BaseWidget.__init__ and the IO widgets' __init__, then set_theme(theme)
NewWidget(cls, themeKey) ==
    [cls |-> cls, value |-> FZero, read_val |-> 0, write_val |-> 0, theme |-> themeKey]

\* TileContainer(name, on_mode_cycle) followed by set_widget(widget)
TileContainer(callback, widget) == [on_mode_cycle |-> callback, inner |-> widget]

\* TileContainer.set_widget
TileContainer_set_widget(t, widget) == [t EXCEPT !.inner = widget]

\* TileContainer.set_theme: every widget class has set_theme
TileContainer_set_theme(t, themeKey) == [t EXCEPT !.inner.theme = themeKey]

\* TileContainer.set_value: widgets of the BaseWidget family have set_value
TileContainer_set_value(t, value) ==
    IF t.inner.cls \in RegularClasses
    THEN [t EXCEPT !.inner.value = BaseWidget_set_value(value)]
    ELSE t

\* TileContainer.set_values: the IO widgets have set_values
TileContainer_set_values(t, read, write) ==
    IF t.inner.cls \in RegularClasses THEN t
    ELSE [t EXCEPT !.inner.read_val = read, !.inner.write_val = write]

\* a dispatch that takes its default for every mode
WidgetClass_fallback(mode) == "TerminalWidget"

\* widgets.get(mode, TerminalWidget) of _create_widget
WidgetClass(mode) ==
    CASE mode = "terminal" -> "TerminalWidget"
      [] mode = "gauge"    -> "GaugeWidget"
      [] mode = "text"     -> "TextWidget"
      [] mode = "wave"     -> "WaveWidget"
      [] mode = "glow"     -> "GlowWidget"
      [] OTHER             -> "TerminalWidget"

\* widgets.get(mode, IOWidget) of _create_io_widget
IOWidgetClass(mode) ==
    CASE mode = "terminal" -> "IOWidget"
      [] mode = "bars"     -> "IOBarsWidget"
      [] mode = "text"     -> "IOTextWidget"
      [] OTHER             -> "IOWidget"

create_widget(c, name) ==
    NewWidget(WidgetClass(ConfigManager_get_tile_mode(c, name)), c.theme)

create_io_widget(c, name) ==
    NewWidget(IOWidgetClass(ConfigManager_get_io_mode(c, name)), c.theme)

make_tile(c, name)    == TileContainer("_on_tile_click", create_widget(c, name))
make_io_tile(c, name) == TileContainer("_on_io_tile_click", create_io_widget(c, name))

make_compact_tile(c, name) ==
    TileContainer("_on_tile_click", NewWidget("CompactWidget", c.theme))

make_compact_io_tile(c, name) ==
    TileContainer("lambda", NewWidget("CompactIOWidget", c.theme))

IOTiles == {"disk", "net"}

\* the tiles each layout builder puts in self.tiles
LayoutTiles(layout) ==
    CASE layout = "compact"   -> {"cpu", "ram", "gpu", "temp", "swap", "vram", "disk", "net"}
      [] layout = "wide"      -> {"cpu", "ram", "gpu", "temp", "disk", "net"}
      [] layout = "vertical"  -> {"cpu", "ram", "gpu", "temp", "disk", "net"}
      [] layout = "mini"      -> {"cpu", "ram", "gpu"}
      [] layout = "dashboard" -> {"cpu", "ram", "gpu", "temp", "swap", "vram", "disk", "net"}
      [] layout = "panel"     -> {"cpu", "ram", "gpu", "temp"}
      [] OTHER                -> {"cpu", "ram", "gpu", "temp", "swap", "vram", "disk", "net"}

\* _build_tiles: self.tiles after the builder of the current layout has run
build_tiles(c) ==
    [name \in LayoutTiles(c.layout) |->
        IF c.layout = "vertical"
        THEN (IF name \in IOTiles THEN make_compact_io_tile(c, name)
              ELSE make_compact_tile(c, name))
        ELSE (IF name \in IOTiles THEN make_io_tile(c, name)
              ELSE make_tile(c, name))]

\* _rebuild_tile and _rebuild_io_tile: self.tiles afterwards
rebuild_tile(ts, c, name) ==
    IF name \notin DOMAIN ts \/ name \in IOTiles THEN ts
    ELSE [ts EXCEPT ![name] = TileContainer_set_widget(@, create_widget(c, name))]

rebuild_io_tile(ts, c, name) ==
    IF name \notin DOMAIN ts THEN ts
    ELSE [ts EXCEPT ![name] = TileContainer_set_widget(@, create_io_widget(c, name))]

\* _apply_theme_to_tiles reaching the regular tiles only
apply_theme_to_tiles_regular(ts, c) ==
    [name \in DOMAIN ts |->
        IF name \in IOTiles THEN ts[name] ELSE TileContainer_set_theme(ts[name], c.theme)]

\* _apply_theme_to_tiles
apply_theme_to_tiles(ts, c) ==
    [name \in DOMAIN ts |-> TileContainer_set_theme(ts[name], c.theme)]

(***************************************************************************)
(* State.  percent, theme, color and prev are a caller of get_health_color *)
(* on its own: the arguments of the current call, its outcome, and the     *)
(* arguments and outcome of the call before it; rate and text are a caller *)
(* of the byte-rate formatter.  The others are the application: the THEMES *)
(* table, the ConfigManager and the file it saves to, self.tiles, the last *)
(* counters read, and what the most recent on_draw computed.  clicks       *)
(* counts the user's clicks.  phase is where the window is in its life     *)
(* (constructed, running once realized, closed), winpos the position the   *)
(* window has on screen, desktop whether the autostart .desktop file       *)
(* exists, and lastEvent the last event of the user or the window manager  *)
(* that the application handled.  timers is the set of timeout sources of  *)
(* the GLib main loop that are still attached.  orbit belongs to a caller  *)
(* of the ConfigManager's cycle operations on their own: the operation, the *)
(* tile it names, the value it started from and the values it has given.   *)
(* drag is the window's _dragging, _drag_x and _drag_y, and moves counts   *)
(* the pointer motions handled.  ref belongs to an observer of the draws:  *)
(* the first draw it saw, and after how many clicks that draw and the      *)
(* latest draw making the same call were made.                             *)
(***************************************************************************)
VARIABLES percent, theme, color, prev, rate, text, short,
          THEMES, config, file, tiles, last_disk, last_net, lastDraw, clicks,
          phase, winpos, desktop, lastEvent, timers, orbit, drag, moves, ref

callerVars == <<percent, theme, color, prev>>
fmtVars    == <<rate, text, short>>
winVars    == <<phase, winpos, desktop, lastEvent, drag, moves>>
appVars    == <<THEMES, config, file, tiles, last_disk, last_net, lastDraw, clicks,
                phase, winpos, desktop, lastEvent, timers, drag, moves>>
vars       == <<percent, theme, color, prev, rate, text, short,
                THEMES, config, file, tiles, last_disk, last_net, lastDraw, clicks,
                phase, winpos, desktop, lastEvent, timers, orbit, drag, moves, ref>>

MaxClicks == 2

\* the motion events a run handles at most
MaxMoves == 1

NoCall == [kind |-> "none"]
NoPrev == [percent |-> FZero, color |-> NoCall]
NoText == "(not called)"
NoDraw == [tile |-> "", kind |-> "none", percent |-> FZero, theme |-> "",
           color |-> NoCall, rx |-> "", tx |-> ""]
None   == [none |-> TRUE]

\* What one tick reads from psutil and nvidia-smi.  The second reading has a
\* GPU, a temperature above 100 and a network counter that went backwards; the
\* third reports no GPU memory, which makes _update divide by zero, and no disk.
Samples ==
    { [cpu |-> Dec(125, 10), ram |-> Dec(625, 10), swap |-> FZero, gpu |-> None,
       disk |-> [read_bytes |-> 5000, write_bytes |-> 2000],
       net  |-> [bytes_recv |-> 3000, bytes_sent |-> 1000]],
      [cpu |-> FromInt(100), ram |-> Dec(875, 10), swap |-> Dec(501, 10),
       gpu |-> [util |-> FromInt(75), mem_used |-> FromInt(4096), mem_total |-> 8192,
                temp |-> FromInt(105)],
       disk |-> [read_bytes |-> 6536, write_bytes |-> 1050576],
       net  |-> [bytes_recv |-> 500, bytes_sent |-> 2024]],
      [cpu |-> Dec(751, 10), ram |-> Dec(625, 10), swap |-> FZero,
       gpu |-> [util |-> FZero, mem_used |-> FZero, mem_total |-> 0, temp |-> FromInt(40)],
       disk |-> None,
       net  |-> [bytes_recv |-> 3000, bytes_sent |-> 1000]] }

FirstCounters == [disk |-> [read_bytes |-> 5000, write_bytes |-> 2000],
                  net  |-> [bytes_recv |-> 3000, bytes_sent |-> 1000]]

NoFile == [exists |-> FALSE, text |-> ""]

Event(kind, tile, button) == [kind |-> kind, tile |-> tile, button |-> button]
NoEvent == Event("none", "", 0)

\* where the window manager first puts the window
FirstPosition == [x |-> 0, y |-> 0]

\* the timeout sources __init__ adds: GLib.timeout_add(500, lambda: ...) and
\* GLib.timeout_add(UPDATE_INTERVAL_MS, self._update)
Timers == {"first", "periodic"}

\* _dragging = False, _drag_x = 0, _drag_y = 0; coordinates of pointer events
\* are floats, held in halves of a pixel
NoDrag == [dragging |-> FALSE, x |-> 0, y |-> 0]

\* no draw taken as the reference yet
NoRef == [draw |-> NoDraw, at |-> 0, last |-> 0]

NoOrbit == [op |-> "none", name |-> "", start |-> "", seen |-> <<>>]

\* MystemSonitor.__init__ with the config file f on disk
Constructed(f) ==
    /\ THEMES = THEMES_TABLE
    /\ file = f
    /\ config = ConfigManager_load(f, THEMES_TABLE)
    /\ tiles = build_tiles(ConfigManager_load(f, THEMES_TABLE))
    /\ last_disk = FirstCounters.disk
    /\ last_net = FirstCounters.net
    /\ lastDraw = NoDraw
    /\ clicks = 0
    /\ phase = "constructed"
    /\ winpos = FirstPosition
    /\ lastEvent = NoEvent
    /\ timers = Timers
    /\ drag = NoDrag
    /\ moves = 0

\* MystemSonitor.__init__ with no config file on disk
AppInit ==
    /\ Constructed(NoFile)
    /\ desktop = FALSE

CallerIdle ==
    /\ percent = FZero
    /\ theme = THEMES_TABLE["default"]
    /\ color = NoCall
    /\ prev = NoPrev
    /\ ref = NoRef

FmtIdle == rate = 0 /\ text = NoText /\ short = NoText

CycleIdle == orbit = NoOrbit

(***************************************************************************)
(* The caller of get_health_color.                                         *)
(***************************************************************************)
\* The percentages the caller passes, in tenths: below 0, inside [0, 100] with
\* both breakpoints and their neighbours, 100 and above.
PercentTenths ==
    {-100, 0, 250, 400, 500, 501, 550, 625, 700, 749, 750, 751, 800, 875, 999,
     1000, 1001, 1500}

PercentInputs == {Dec(n, 10) : n \in PercentTenths}

\* The themes the caller passes: the six of THEMES, three more with channels at
\* the ends of [0, 1] and in between, one with a channel above 1 and one that
\* lacks a stop.
ThemeInputs ==
    {THEMES_TABLE[n] : n \in DOMAIN THEMES_TABLE} \cup
    { [good |-> RGB(0, 0, 0), warn |-> RGB(100, 100, 100), danger |-> RGB(0, 0, 0)],
      [good |-> RGB(100, 100, 100), warn |-> RGB(0, 0, 0), danger |-> RGB(100, 0, 100)],
      [good |-> RGB(10, 70, 33), warn |-> RGB(90, 7, 99), danger |-> RGB(1, 60, 100)],
      [good |-> RGB(20, 20, 20), warn |-> RGB(120, 50, 50), danger |-> RGB(100, 0, 0)],
      [good |-> RGB(30, 85, 40), warn |-> RGB(100, 75, 20)] }

InitColor ==
    /\ percent \in PercentInputs
    /\ theme \in ThemeInputs
    /\ color = NoCall
    /\ prev = NoPrev
    /\ ref = NoRef
    /\ FmtIdle
    /\ CycleIdle
    /\ AppInit

\* color = get_health_color(self.value, self.theme), as every on_draw does
CallGetHealthColor ==
    /\ color = NoCall
    /\ color' = get_health_color(percent, theme)
    /\ theme' = get_health_color_theme(percent, theme)
    /\ UNCHANGED <<percent, prev, fmtVars, appVars, orbit, ref>>

\* widget.set_value(percent): the next draw maps the value the widget kept
SetValue ==
    /\ color # NoCall
    /\ prev' = [percent |-> percent, color |-> color]
    /\ percent' = BaseWidget_set_value(percent)
    /\ color' = NoCall
    /\ UNCHANGED <<theme, fmtVars, appVars, orbit, ref>>

\* the caller moves on to another percentage
NextPercent ==
    /\ color # NoCall
    /\ \E p \in PercentInputs :
          /\ prev' = [percent |-> percent, color |-> color]
          /\ percent' = p
    /\ color' = NoCall
    /\ UNCHANGED <<theme, fmtVars, appVars, orbit, ref>>

NextColor == CallGetHealthColor \/ SetValue \/ NextPercent

SpecColor == InitColor /\ [][NextColor]_vars

(***************************************************************************)
(* The caller of the byte-rate formatter.                                  *)
(***************************************************************************)
\* The rates passed: around 0, around each power of 1024, in between, and
\* some below 0.
RateInputs ==
    {-2000000, -1024, -5, -1, 0, 1, 9, 10, 99, 512, 1000, 1536, 2047, 2048, 2560,
     102400, 1000000, 1572864, 5242880, 104857600, 1000000000, 1610612736,
     2147483647}
    \cup {1024 + d : d \in -3..3} \cup {1024^2 + d : d \in -3..3}
    \cup {1024^3 + d : d \in -3..3}
    \cup {1024 * k + 51 : k \in 1..5} \cup {1024 * k + 52 : k \in 1..5}
    \cup {1024^2 - 52, 1024^2 - 51, 1024^3 - 52429, 1024^3 - 52428}

InitFmt ==
    /\ rate \in RateInputs
    /\ text = NoText
    /\ short = NoText
    /\ CallerIdle
    /\ CycleIdle
    /\ AppInit

\* text = self._fmt_long(rate), as IOWidget.on_draw does
CallFmtLong ==
    /\ text = NoText
    /\ text' = IOWidget_fmt_long(rate)
    /\ UNCHANGED <<rate, short, callerVars, appVars, orbit, ref>>

\* short = self._fmt_short(rate), as IOBarsWidget.on_draw does
CallFmtShort ==
    /\ short = NoText
    /\ short' = IOBarsWidget_fmt_short(rate)
    /\ UNCHANGED <<rate, text, callerVars, appVars, orbit, ref>>

\* the caller moves on to another rate
NextRate ==
    /\ text # NoText
    /\ short # NoText
    /\ rate' \in RateInputs
    /\ text' = NoText
    /\ short' = NoText
    /\ UNCHANGED <<callerVars, appVars, orbit, ref>>

NextFmt == CallFmtLong \/ CallFmtShort \/ NextRate

SpecFmt == InitFmt /\ [][NextFmt]_vars

(***************************************************************************)
(* The application.                                                        *)
(***************************************************************************)
\* the difference taken as it is
IntMax_unclamped(a, b) == b

\* max(a, b) of two ints
IntMax(a, b) == IF b > a THEN b ELSE a

SetValueIf(ts, name, value) ==
    IF name \in DOMAIN ts THEN [ts EXCEPT ![name] = TileContainer_set_value(@, value)]
    ELSE ts

\* _update, the CPU, RAM and Swap blocks
UpdateCpuRamSwap(ts, s) ==
    SetValueIf(SetValueIf(SetValueIf(ts, "cpu", s.cpu), "ram", s.ram), "swap", s.swap)

\* _update, the GPU block: self.tiles afterwards, and whether the division
\* raised ZeroDivisionError
UpdateGpu(ts, s) ==
    IF s.gpu = None
    THEN [raised |-> FALSE,
          tiles |-> SetValueIf(SetValueIf(SetValueIf(ts, "gpu", FZero), "vram", FZero),
                               "temp", FZero)]
    ELSE IF "vram" \in DOMAIN ts /\ s.gpu.mem_total = 0
    THEN [raised |-> TRUE, tiles |-> SetValueIf(ts, "gpu", s.gpu.util)]
    ELSE [raised |-> FALSE,
          tiles |-> SetValueIf(
                      SetValueIf(SetValueIf(ts, "gpu", s.gpu.util), "vram",
                                 IF s.gpu.mem_total = 0 THEN FZero
                                 ELSE FMul(FDivInt(s.gpu.mem_used, s.gpu.mem_total),
                                           FromInt(100))),
                      "temp", s.gpu.temp)]

\* _update, the Disk block
UpdateDisk(ts, disk, last) ==
    IF disk # None /\ last # None /\ "disk" \in DOMAIN ts
    THEN [ts EXCEPT !["disk"] =
            TileContainer_set_values(@, IntMax(0, disk.read_bytes - last.read_bytes),
                                        IntMax(0, disk.write_bytes - last.write_bytes))]
    ELSE ts

\* _update, the Network block
UpdateNet(ts, net, last) ==
    IF net # None /\ last # None /\ "net" \in DOMAIN ts
    THEN [ts EXCEPT !["net"] =
            TileContainer_set_values(@, IntMax(0, net.bytes_recv - last.bytes_recv),
                                        IntMax(0, net.bytes_sent - last.bytes_sent))]
    ELSE ts

\* _update after the GPU block: an exception raised there skips the rest
UpdateRest(g, s) ==
    IF g.raised
    THEN /\ tiles' = g.tiles
         /\ UNCHANGED <<last_disk, last_net>>
    ELSE /\ tiles' = UpdateNet(UpdateDisk(g.tiles, s.disk, last_disk), s.net, last_net)
         /\ last_disk' = s.disk
         /\ last_net' = s.net

\* the source the main loop dispatches next: the 500 ms one is due before the
\* 1000 ms one, and was attached first
DueTimer(ts) == IF "first" \in ts THEN "first" ELSE "periodic"

\* _update letting the exception of a failed sampling out to GLib, which
\* takes that as False
update_return_uncaught(g) == ~ g.raised

\* what _update returns: True, after the try block and after the except block
update_return(g) == TRUE

\* what the callback of source t returns to GLib: (self._update(), False)[-1]
\* for the 500 ms source, _update's own value for the periodic one
timer_callback(t, ret) == IF t = "first" THEN FALSE ELSE ret

\* GLib dispatches source t: the callback runs _update, and a source whose
\* callback returns False is removed
UpdateTimer(t, g, s) ==
    /\ UpdateRest(g, s)
    /\ timers' = IF timer_callback(t, update_return(g)) THEN timers ELSE timers \ {t}

\* a timer runs _update
Update ==
    /\ phase = "running"
    /\ timers # {}
    /\ \E s \in Samples :
          UpdateTimer(DueTimer(timers), UpdateGpu(UpdateCpuRamSwap(tiles, s), s), s)
    /\ UNCHANGED <<THEMES, config, file, lastDraw, clicks, winVars, orbit,
                   callerVars, fmtVars, ref>>

\* the text an IO widget draws for one rate
FmtOf(cls, v) ==
    CASE cls = "IOWidget"        -> IOWidget_fmt_long(v)
      [] cls = "IOBarsWidget"    -> IOBarsWidget_fmt_short(v)
      [] cls = "IOTextWidget"    -> IOTextWidget_fmt_short(v)
      [] cls = "CompactIOWidget" -> CompactIOWidget_fmt_short(v)

\* on_draw of widget w: what it computes from the widget before painting
on_draw(name, w, T) ==
    IF w.cls \in RegularClasses
    THEN [tile |-> name, kind |-> "color", percent |-> w.value, theme |-> w.theme,
          color |-> get_health_color(w.value, T[w.theme]), rx |-> "", tx |-> ""]
    ELSE [tile |-> name, kind |-> "io", percent |-> FZero, theme |-> w.theme,
          color |-> NoCall, rx |-> FmtOf(w.cls, w.read_val), tx |-> FmtOf(w.cls, w.write_val)]

\* the THEMES table after on_draw of widget w: the widget's theme is the dict
\* THEMES[name] itself, which on_draw passes to get_health_color
on_draw_themes(w, T) ==
    IF w.cls \in RegularClasses
    THEN [T EXCEPT ![w.theme] = get_health_color_theme(w.value, T[w.theme])]
    ELSE T

\* on_draw of the tile name
DrawTile(name) ==
    /\ lastDraw' = on_draw(name, tiles[name].inner, THEMES)
    /\ THEMES' = on_draw_themes(tiles[name].inner, THEMES)

\* GTK draws one tile
Draw ==
    /\ phase = "running"
    /\ \E name \in DOMAIN tiles : DrawTile(name)
    /\ UNCHANGED <<config, file, tiles, last_disk, last_net, clicks,
                   winVars, timers, orbit,
                   callerVars, fmtVars, ref>>

\* the draw taken as the reference from now on, made after n clicks
RefOf(d, n) == [draw |-> d, at |-> n, last |-> n]

\* the tile the observer watches being drawn
ObservedTiles == {"ram"}

\* both draws called get_health_color, with the same percent and the same
\* theme dict
SameCall(d, e) ==
    d.kind = "color" /\ e.kind = "color" /\ d.percent = e.percent /\ d.theme = e.theme

\* what the observer holds after the draw d made after n clicks: the first
\* draw it sees is the reference, and of the later draws that make the same
\* call it notes after how many clicks the latest was made
Observed(r, d, n) ==
    IF r = NoRef THEN RefOf(d, n)
    ELSE IF SameCall(r.draw, d) THEN [r EXCEPT !.last = n]
    ELSE r

\* GTK draws one tile, and an observer keeps an earlier draw as the reference
DrawObserved ==
    /\ phase = "running"
    /\ \E name \in DOMAIN tiles \cap ObservedTiles : DrawTile(name)
    /\ ref' = Observed(ref, lastDraw', clicks)
    /\ UNCHANGED <<config, file, tiles, last_disk, last_net, clicks,
                   winVars, timers, orbit,
                   callerVars, fmtVars>>

\* _on_layout_click
OnLayoutClick ==
    /\ phase = "running"
    /\ clicks < MaxClicks
    /\ lastEvent' = Event("layout_click", "", 1)
    /\ clicks' = clicks + 1
    /\ config' = ConfigManager_cycle_layout(config)
    /\ file' = [exists |-> TRUE, text |-> ConfigManager_save(config')]
    /\ tiles' = build_tiles(config')
    /\ UNCHANGED <<THEMES, last_disk, last_net, lastDraw, phase, winpos, desktop,
                   timers, orbit,
                   drag, moves, callerVars, fmtVars, ref>>

\* _on_theme_click
OnThemeClick ==
    /\ phase = "running"
    /\ clicks < MaxClicks
    /\ lastEvent' = Event("theme_click", "", 1)
    /\ clicks' = clicks + 1
    /\ config' = ConfigManager_cycle_theme(config)
    /\ file' = [exists |-> TRUE, text |-> ConfigManager_save(config')]
    /\ tiles' = apply_theme_to_tiles(tiles, config')
    /\ UNCHANGED <<THEMES, last_disk, last_net, lastDraw, phase, winpos, desktop,
                   timers, orbit,
                   drag, moves, callerVars, fmtVars, ref>>

\* _on_tile_click(name)
OnTileClick(name) ==
    /\ config' = ConfigManager_cycle_tile_mode(config, name)
    /\ file' = [exists |-> TRUE, text |-> ConfigManager_save(config')]
    /\ tiles' = rebuild_tile(tiles, config', name)

\* _on_io_tile_click(name)
OnIoTileClick(name) ==
    /\ config' = ConfigManager_cycle_io_mode(config, name)
    /\ file' = [exists |-> TRUE, text |-> ConfigManager_save(config')]
    /\ tiles' = rebuild_io_tile(tiles, config', name)

\* the tiles the user clicks, and the mouse buttons
ClickTiles == {"cpu", "disk"}
Buttons == {1, 3}

\* TileContainer._on_click
TileClick ==
    /\ phase = "running"
    /\ clicks < MaxClicks
    /\ clicks' = clicks + 1
    /\ \E name \in DOMAIN tiles \cap ClickTiles, button \in Buttons :
          /\ lastEvent' = Event("tile_click", name, button)
          /\ IF button # 1 \/ tiles[name].on_mode_cycle = "lambda"
             THEN UNCHANGED <<config, file, tiles>>
             ELSE IF tiles[name].on_mode_cycle = "_on_tile_click" THEN OnTileClick(name)
             ELSE OnIoTileClick(name)
    /\ UNCHANGED <<THEMES, last_disk, last_net, lastDraw, phase, winpos, desktop,
                   timers, orbit,
                   drag, moves, callerVars, fmtVars, ref>>

\* _on_realize moving the window when either coordinate is >= 0
on_realize_either(c, pos) ==
    IF c.window_x >= 0 \/ c.window_y >= 0 THEN [x |-> c.window_x, y |-> c.window_y]
    ELSE pos

\* the position _on_realize leaves the window at
on_realize(c, pos) ==
    IF c.window_x >= 0 /\ c.window_y >= 0 THEN [x |-> c.window_x, y |-> c.window_y]
    ELSE pos

\* show_all() realizes the window: _on_realize, then the main loop runs
Realize ==
    /\ phase = "constructed"
    /\ phase' = "running"
    /\ winpos' = on_realize(config, winpos)
    /\ lastEvent' = Event("realize", "", 0)
    /\ UNCHANGED <<THEMES, config, file, tiles, last_disk, last_net, lastDraw, clicks,
                   desktop, timers, orbit,
                   drag, moves, callerVars, fmtVars, ref>>

\* the config _on_configure leaves when the window is at pos
on_configure(c, pos) ==
    IF pos.x # c.window_x \/ pos.y # c.window_y
    THEN [c EXCEPT !.window_x = pos.x, !.window_y = pos.y]
    ELSE c

\* int(x) of a float x held in halves: the fraction is cut off, towards zero
PyTrunc(n) == IF n >= 0 THEN n \div 2 ELSE 0 - ((0 - n) \div 2)

\* _on_button_press: a left press in the top 40 pixels starts a drag
on_button_press(d, e) ==
    IF e.button = 1 /\ e.y < 2 * 40 THEN [dragging |-> TRUE, x |-> e.x, y |-> e.y]
    ELSE d

\* _on_button_release
on_button_release(d) == [d EXCEPT !.dragging = FALSE]

\* _on_motion: where self.move puts the window, pos being self.get_position()
on_motion(d, pos, e) ==
    IF d.dragging
    THEN [x |-> pos.x + PyTrunc(e.x - d.x), y |-> pos.y + PyTrunc(e.y - d.y)]
    ELSE pos

\* the button presses and pointer motions of a run, in halves of a pixel: a
\* left press at (10.5, 12) and one below the header at (20, 45); motions to
\* (130.5, 92) and to (3, 42.5)
PressEvents == {[button |-> 1, x |-> 21, y |-> 24], [button |-> 1, x |-> 40, y |-> 90]}

MotionEvents == {[x |-> 261, y |-> 184], [x |-> 6, y |-> 85]}

\* button-press-event on the window
OnButtonPress ==
    /\ phase = "running"
    /\ \E e \in PressEvents :
          /\ drag' = on_button_press(drag, e)
          /\ lastEvent' = Event("button_press", "", e.button)
    /\ UNCHANGED <<THEMES, config, file, tiles, last_disk, last_net, lastDraw, clicks, phase,
                   winpos, moves, desktop, timers, orbit,
                   callerVars, fmtVars, ref>>

\* button-release-event on the window
OnButtonRelease ==
    /\ phase = "running"
    /\ drag' = on_button_release(drag)
    /\ lastEvent' = Event("button_release", "", 1)
    /\ UNCHANGED <<THEMES, config, file, tiles, last_disk, last_net, lastDraw, clicks, phase,
                   winpos, moves, desktop, timers, orbit,
                   callerVars, fmtVars, ref>>

\* motion-notify-event on the window: _on_motion moves the window and returns
\* to the main loop; the config still holds the position it had
OnMotion ==
    /\ phase = "running"
    /\ moves < MaxMoves
    /\ moves' = moves + 1
    /\ \E e \in MotionEvents : winpos' = on_motion(drag, winpos, e)
    /\ lastEvent' = Event("motion", "", 0)
    /\ UNCHANGED <<THEMES, config, file, tiles, last_disk, last_net, lastDraw, clicks, phase,
                   drag, desktop, timers, orbit,
                   callerVars, fmtVars, ref>>

\* the main loop dispatches a configure-event, sent after the window was
\* mapped, moved or resized: _on_configure reads the position the window has
OnConfigure ==
    /\ phase = "running"
    /\ config' = on_configure(config, winpos)
    /\ lastEvent' = Event("configure", "", 0)
    /\ UNCHANGED <<THEMES, file, tiles, last_disk, last_net, lastDraw, clicks, phase,
                   winpos, drag, moves, desktop, timers, orbit,
                   callerVars, fmtVars, ref>>

\* ConfigManager.set_autostart(enabled): the config before its save()
ConfigManager_set_autostart(c, enabled) == [c EXCEPT !.autostart = enabled]

\* set_autostart that leaves the desktop file where it is when disabling
set_autostart_desktop_kept(d, enabled) == IF enabled THEN TRUE ELSE d

\* set_autostart(enabled): whether the autostart desktop file exists afterwards,
\* d telling whether it existed before
set_autostart_desktop(d, enabled) ==
    IF enabled THEN TRUE
    ELSE IF d THEN FALSE
    ELSE d

\* the Autostart item of the settings menu is toggled
OnAutostartToggled ==
    /\ phase = "running"
    /\ clicks < MaxClicks
    /\ clicks' = clicks + 1
    /\ config' = ConfigManager_set_autostart(config, ~ config.autostart)
    /\ file' = [exists |-> TRUE, text |-> ConfigManager_save(config')]
    /\ desktop' = set_autostart_desktop(desktop, ~ config.autostart)
    /\ lastEvent' = Event("autostart", "", 1)
    /\ UNCHANGED <<THEMES, tiles, last_disk, last_net, lastDraw, phase, winpos,
                   timers, orbit,
                   drag, moves, callerVars, fmtVars, ref>>

\* the close button: Gtk.main_quit() ends the main loop and main() returns; the
\* window is not destroyed, so _on_destroy does not run
OnCloseClicked ==
    /\ phase = "running"
    /\ phase' = "closed"
    /\ lastEvent' = Event("close_button", "", 1)
    /\ UNCHANGED <<THEMES, config, file, tiles, last_disk, last_net, lastDraw, clicks,
                   winpos, desktop, timers, orbit,
                   drag, moves, callerVars, fmtVars, ref>>

\* the window is destroyed (closed through the window manager): _on_destroy
\* saves the config, then Gtk.main_quit ends the main loop
OnDestroy ==
    /\ phase = "running"
    /\ phase' = "closed"
    /\ file' = [exists |-> TRUE, text |-> ConfigManager_save(config)]
    /\ lastEvent' = Event("destroy", "", 0)
    /\ UNCHANGED <<THEMES, config, tiles, last_disk, last_net, lastDraw, clicks,
                   winpos, desktop, timers, orbit,
                   drag, moves, callerVars, fmtVars, ref>>

Init ==
    /\ AppInit
    /\ CallerIdle
    /\ FmtIdle
    /\ CycleIdle

Next == Realize \/ Update \/ Draw \/ OnLayoutClick \/ OnThemeClick \/ TileClick

Spec == Init /\ [][Next]_vars

(***************************************************************************)
(* The life of the configuration: the application starts with one of a few *)
(* config files on disk, is realized, handles clicks, menu toggles and     *)
(* window moves, and is closed.                                            *)
(***************************************************************************)
\* a file the application saved earlier
SavedFile ==
    [exists |-> TRUE,
     text |-> "layout=wide\nvis_mode=terminal\nio_mode=terminal\ntheme=nord\n"
              \o "autostart=true\nwindow_x=120\nwindow_y=80\ntile_cpu=glow\nio_disk=bars\n"]

\* a file edited by hand: values outside the lists, another default mode, a
\* negative coordinate, a tile order, a comment
EditedFile ==
    [exists |-> TRUE,
     text |-> "layout=grid\nvis_mode=wave\nio_mode=pie\ntheme=neon\nautostart=yes\n"
              \o "window_x=-7\nwindow_y=30\ntile_order=cpu,ram\ntile_cpu=pie\n"
              \o "tile_ram=glow\nio_net=text\nio_disk=wave\n# comment\n"]

\* a file whose window_x is no integer: load stops there
BrokenFile == [exists |-> TRUE, text |-> "theme=ocean\nwindow_x=abc\nlayout=mini\n"]

\* a file with the position (0, 0) and valid values after invalid ones
CornerFile ==
    [exists |-> TRUE,
     text |-> "window_x=0\nwindow_y=0\ntheme=matrix\ntheme=neon\nlayout=vertical\n"
              \o "layout=\nvis_mode=gauge\nvis_mode=bars\nio_mode=text\nio_mode=glow\n"]

\* a file whose window_y is no integer, after tile modes and before others
HalfFile ==
    [exists |-> TRUE,
     text |-> "layout=panel\ntile_cpu=gauge\nwindow_x=40\nwindow_y=12px\n"
              \o "io_disk=bars\nautostart=true\ntheme=nord\ntile_cpu=wave\n"]

\* a file with the line ends "\r" and "\r\n", an underscore in a number, a
\* Bengali digit, and a form feed, a line tabulation, a no-break space and
\* an Ogham space mark around values
ForeignFile ==
    [exists |-> TRUE,
     text |-> "layout=wide\rtheme=ocean\r\nwindow_x=1_0\nwindow_y= \f1২\n"
              \o "vis_mode=glow\n io_mode=text\rtile_cpu= wave\nautostart=true"]

InitialFiles ==
    {NoFile, SavedFile, EditedFile, BrokenFile, CornerFile, HalfFile, ForeignFile}

InitConfig ==
    /\ \E f \in InitialFiles : Constructed(f)
    /\ desktop \in BOOLEAN
    /\ CallerIdle
    /\ FmtIdle
    /\ CycleIdle

NextConfig ==
    \/ Realize \/ OnButtonPress \/ OnButtonRelease \/ OnMotion \/ OnConfigure
    \/ OnLayoutClick \/ OnThemeClick \/ TileClick
    \/ OnAutostartToggled \/ OnCloseClicked \/ OnDestroy

SpecConfig == InitConfig /\ [][NextConfig]_vars

(***************************************************************************)
(* The main loop and its timers: show_all() and Gtk.main() follow the      *)
(* construction at once, and a running main loop dispatches every timeout  *)
(* source that stays attached.  The fairness of Update is weak fairness    *)
(* with its enabling condition written out: while the loop runs and a      *)
(* source is attached, an _update can always change the state, since the   *)
(* cpu tile is part of every layout and the samples differ in their CPU    *)
(* reading.                                                                *)
(***************************************************************************)
\* the application drawn under observation: ticks, draws, theme clicks and tile
\* clicks
NextPure == Realize \/ Update \/ DrawObserved \/ OnThemeClick \/ TileClick

SpecPure == Init /\ [][NextPure]_vars

NextTimer == Realize \/ Update \/ Draw \/ OnCloseClicked \/ OnDestroy

UpdateDue == phase = "running" /\ timers # {}

FairUpdate == <>[]UpdateDue => []<><<Update>>_vars

SpecTimer == Init /\ [][NextTimer]_vars /\ WF_vars(Realize) /\ FairUpdate

(***************************************************************************)
(* A caller of the cycle operations of the ConfigManager.  The manager is  *)
(* constructed from a file saved with any layout and theme and the modes   *)
(* of one of the initial files; then one operation is applied again and    *)
(* again, once for each entry of its list.  In between the caller may set  *)
(* the stored window position.                                             *)
(***************************************************************************)
CycleConfigs ==
    {[ConfigManager_load(f, THEMES_TABLE) EXCEPT !.layout = l, !.theme = t] :
        f \in InitialFiles, l \in Range(LAYOUTS), t \in Range(THEME_ORDER)}

CycleFiles == {[exists |-> TRUE, text |-> ConfigManager_save(c)] : c \in CycleConfigs}

\* the operations and the tile they are called with
CycleOps ==
    {<<"layout", "">>, <<"theme", "">>, <<"tile_mode", "cpu">>, <<"tile_mode", "ram">>,
     <<"io_mode", "disk">>, <<"io_mode", "net">>}

\* the list an operation goes through, and the value it moves
CycleList(op) ==
    CASE op = "layout"    -> LAYOUTS
      [] op = "theme"     -> THEME_ORDER
      [] op = "tile_mode" -> VIS_MODES
      [] op = "io_mode"   -> IO_MODES

CycleValue(c, op, name) ==
    CASE op = "layout"    -> c.layout
      [] op = "theme"     -> c.theme
      [] op = "tile_mode" -> ConfigManager_get_tile_mode(c, name)
      [] op = "io_mode"   -> ConfigManager_get_io_mode(c, name)

StartOrbit(c, o) ==
    orbit = [op |-> o[1], name |-> o[2], start |-> CycleValue(c, o[1], o[2]), seen |-> <<>>]

InitCycle ==
    /\ \E f \in CycleFiles : Constructed(f)
    /\ \E o \in CycleOps : StartOrbit(config, o)
    /\ desktop = FALSE
    /\ CallerIdle
    /\ FmtIdle

\* one call of a cycle operation leaving the config c2, which it saves
CallCycle(op, c2) ==
    /\ orbit.op = op
    /\ Len(orbit.seen) < Len(CycleList(op))
    /\ config' = c2
    /\ file' = [exists |-> TRUE, text |-> ConfigManager_save(c2)]
    /\ orbit' = [orbit EXCEPT !.seen = Append(@, CycleValue(c2, op, orbit.name))]
    /\ UNCHANGED <<THEMES, tiles, last_disk, last_net, lastDraw, clicks, winVars, timers,
                   callerVars, fmtVars, ref>>

CallCycleLayout   == CallCycle("layout", ConfigManager_cycle_layout(config))
CallCycleTheme    == CallCycle("theme", ConfigManager_cycle_theme(config))
CallCycleTileMode == CallCycle("tile_mode", ConfigManager_cycle_tile_mode(config, orbit.name))
CallCycleIoMode   == CallCycle("io_mode", ConfigManager_cycle_io_mode(config, orbit.name))

\* the positions set_window_pos is called with
WindowPositions == {[x |-> 7, y |-> 9], [x |-> -40, y |-> 1200]}

\* one call of set_window_pos, which stores the position and saves; the window
\* itself stays where it is.  The application has no call of it, so it is a
\* step of this caller only.
CallSetWindowPos ==
    /\ \E p \in WindowPositions :
          config' = ConfigManager_set_window_pos(config, p.x, p.y)
    /\ file' = [exists |-> TRUE, text |-> ConfigManager_save(config')]
    /\ UNCHANGED <<THEMES, tiles, last_disk, last_net, lastDraw, clicks, winVars, timers,
                   orbit, callerVars, fmtVars, ref>>

NextCycle ==
    CallCycleLayout \/ CallCycleTheme \/ CallCycleTileMode \/ CallCycleIoMode
        \/ CallSetWindowPos

SpecCycle == InitCycle /\ [][NextCycle]_vars

(***************************************************************************)
(* Properties of get_health_color, over SpecColor.                         *)
(***************************************************************************)
Called == color # NoCall

Stops == {"good", "warn", "danger"}

\* the theme carries the three stops, each an RGB triple
HasStops(th) == Stops \subseteq DOMAIN th /\ \A k \in Stops : Len(th[k]) = 3

\* 0 <= c <= 1
InUnit(c) == FLe(FZero, c) /\ FLe(c, FromInt(1))

ThemeInUnit(th) == \A k \in Stops : \A i \in 1..3 : InUnit(th[k][i])

\* c lies between a and b, ends included
Between(a, c, b) == (FLe(a, c) /\ FLe(c, b)) \/ (FLe(b, c) /\ FLe(c, a))

SunsetTheme == [good |-> RGB(100, 55, 45), warn |-> RGB(100, 85, 35),
                danger |-> RGB(100, 30, 40)]

MonoTheme == [good |-> RGB(0, 0, 0), warn |-> RGB(100, 100, 100), danger |-> RGB(0, 0, 0)]

\* C1: for every percent <= 50 (negative, 0 and exactly 50 included) and every
\* theme, get_health_color returns theme["good"] unchanged.
C1_GoodUpTo50 ==
    (Called /\ HasStops(theme) /\ FLe(percent, FromInt(50)))
        => color = Return(theme["good"])

C1_Witness ==
    /\ Called /\ theme = SunsetTheme
    /\ FCmp(percent, FromInt(50)) = 0
    /\ color = Return(theme["good"])

\* C2: for every percent >= 100 and every theme, get_health_color returns
\* exactly theme["danger"].
C2_DangerFrom100 ==
    (Called /\ HasStops(theme) /\ FLe(FromInt(100), percent))
        => color = Return(theme["danger"])

\* C3: no jump at the breakpoints: at 50 the result is theme["good"] and so is
\* the good->warn branch at t = 0; at 75 the result is exactly theme["warn"]
\* and so is the warn->danger branch at t = 0.
C3_NoJumpAtBreakpoints ==
    (Called /\ HasStops(theme)) =>
        /\ FCmp(percent, FromInt(50)) = 0 =>
              /\ color = Return(theme["good"])
              /\ Interp(theme["good"], FZero, theme["warn"]) = theme["good"]
        /\ FCmp(percent, FromInt(75)) = 0 =>
              /\ color = Return(theme["warn"])
              /\ Interp(theme["warn"], FZero, theme["danger"]) = theme["warn"]

\* The interpolation as the specification writes it, one channel.
RefLow(g, w, p)  == FAdd(g, FMul(FDivInt(FSub(p, FromInt(50)), 25), FSub(w, g)))
RefHigh(w, d, p) ==
    FAdd(w, FMul(PyMin(FromInt(1), FDivInt(FSub(p, FromInt(75)), 25)), FSub(d, w)))

RefColor(p, th) ==
    IF FLe(p, FromInt(75))
    THEN [i \in 1..3 |-> RefLow(th["good"][i], th["warn"][i], p)]
    ELSE [i \in 1..3 |-> RefHigh(th["warn"][i], th["danger"][i], p)]

\* C4: for every percent above 50 each channel equals the piecewise-linear
\* reference, good + ((percent-50)/25)*(warn-good) up to 75 and
\* warn + min(1,(percent-75)/25)*(danger-warn) above; with good = (0,0,0) and
\* warn = (1,1,1) the result at 62.5 is (0.5,0.5,0.5).
C4_MatchesReference ==
    (Called /\ HasStops(theme) /\ FLt(FromInt(50), percent)) =>
        /\ color = Return(RefColor(percent, theme))
        /\ (theme = MonoTheme /\ percent = Dec(625, 10)) =>
              color = Return(<<Dec(5, 10), Dec(5, 10), Dec(5, 10)>>)

C4_Witness ==
    /\ Called /\ theme = MonoTheme /\ percent = Dec(625, 10)
    /\ color = Return(<<Dec(5, 10), Dec(5, 10), Dec(5, 10)>>)

\* percent clamped to [0, 100]
Clamp(p) ==
    IF FLt(p, FZero) THEN FZero ELSE IF FLt(FromInt(100), p) THEN FromInt(100) ELSE p

\* C5: the mapping clamps its input: the colour of percent equals the colour of
\* percent clamped to [0, 100].
C5_ClampsInput ==
    (Called /\ prev.color # NoCall /\ percent = Clamp(prev.percent))
        => color = prev.color

C5_Witness ==
    /\ Called /\ prev.color # NoCall /\ HasStops(theme)
    /\ prev.percent = Dec(1500, 10) /\ percent = FromInt(100)
    /\ color = prev.color

\* C6: when every channel of the theme's stops lies in [0, 1], so does every
\* channel of the colour returned.
C6_ChannelsInUnit ==
    (Called /\ HasStops(theme) /\ ThemeInUnit(theme)) =>
        /\ color.kind = "return"
        /\ \A i \in 1..3 : InUnit(color.value[i])

C6_Witness ==
    /\ Called /\ theme = SunsetTheme /\ percent = Dec(1500, 10)
    /\ color.kind = "return"
    /\ \A i \in 1..3 : InUnit(color.value[i])

\* the segment percent falls in: 1 up to 50, 2 in (50, 75], 3 in (75, 100]
Segment(p) ==
    IF FLe(p, FromInt(50)) THEN 1
    ELSE IF FLe(p, FromInt(75)) THEN 2
    ELSE IF FLe(p, FromInt(100)) THEN 3
    ELSE 4

SegStart(th, p) == IF Segment(p) = 2 THEN th["good"] ELSE th["warn"]
SegEnd(th, p)   == IF Segment(p) = 2 THEN th["warn"] ELSE th["danger"]

\* C7: inside (50, 75] and inside (75, 100] each channel lies between the
\* segment's two stops and, for p1 <= p2, is at p2 no closer to the start stop
\* than at p1.
C7_MonotoneBetweenStops ==
    (Called /\ HasStops(theme) /\ Segment(percent) \in {2, 3}) =>
        \A i \in 1..3 :
            /\ Between(SegStart(theme, percent)[i], color.value[i],
                       SegEnd(theme, percent)[i])
            /\ (/\ prev.color # NoCall
                /\ Segment(prev.percent) = Segment(percent)
                /\ FLe(prev.percent, percent)) =>
                   Between(SegStart(theme, percent)[i], prev.color.value[i],
                           color.value[i])

\* C8: for any percent and any theme carrying the three stops the call returns
\* a colour and does not raise.
C8_NeverRaises ==
    (Called /\ HasStops(theme)) => (color.kind = "return" /\ Len(color.value) = 3)

C8_Witness ==
    /\ Called /\ HasStops(theme) /\ percent = Dec(751, 10)
    /\ color.kind = "return"

(***************************************************************************)
(* Purity of get_health_color inside the application, over SpecPure.       *)
(***************************************************************************)
\* this step is a draw
DrawStep == lastDraw' # lastDraw \/ ref' # ref

\* C9: get_health_color is pure, with no hidden state: no step, a draw with
\* its call included, changes the stops held in THEMES, which are those of the
\* source; a draw leaves the config, its file, the widgets and the counters
\* as they are, and gives the colour that the percent and the stops of the
\* source give; so a draw that passes the percent and the theme an earlier
\* draw passed gives the colour that draw gave, whatever ticks, theme clicks
\* and tile clicks were handled in between.
C9_PureNoHiddenState ==
    [][/\ THEMES' = THEMES
       /\ THEMES = THEMES_TABLE
       /\ DrawStep =>
            /\ UNCHANGED <<config, file, tiles, last_disk, last_net>>
            /\ lastDraw'.kind = "color" =>
                 lastDraw'.color =
                    get_health_color(lastDraw'.percent, THEMES_TABLE[lastDraw'.theme])
            /\ SameCall(ref'.draw, lastDraw') => lastDraw'.color = ref'.draw.color]_vars

\* the ram tile was drawn at 62.5 before any click; then the cpu tile was
\* clicked and rebuilt, a tick set the values again, and the ram tile drawn
\* at 62.5 once more has the colour of the first draw, one between the good
\* and the warn stop
C9_Witness ==
    /\ ref.draw.tile = "ram" /\ ref.at = 0 /\ ref.last = 1
    /\ lastDraw.tile = "ram" /\ lastDraw.percent = Dec(625, 10)
    /\ SameCall(ref.draw, lastDraw)
    /\ lastDraw.color = ref.draw.color
    /\ lastDraw.color = get_health_color(Dec(625, 10), THEMES_TABLE["default"])
    /\ lastDraw.color.value # THEMES_TABLE["default"].good
    /\ DictHas(config.tile_modes, "cpu")
    /\ tiles["cpu"].inner.value = Dec(751, 10)

(***************************************************************************)
(* Properties of the byte-rate formatter, over SpecFmt.                    *)
(***************************************************************************)
\* the text after the last space of t
RECURSIVE UnitFrom(_, _)
UnitFrom(t, i) ==
    IF i = 0 THEN t
    ELSE IF SubSeq(t, i, i) = " " THEN SubSeq(t, i + 1, Len(t))
    ELSE UnitFrom(t, i - 1)

UnitOf(t) == UnitFrom(t, Len(t))

\* C10: _fmt_long selects the unit by strict thresholds at the powers of 1024:
\* B/s below 1024, KB/s from 1024 up to 1024^2, MB/s from 1024^2 up to 1024^3,
\* GB/s from 1024^3 on, so a value equal to a threshold is shown in the next
\* unit up.
C10_UnitByStrictThresholds ==
    text # NoText =>
        UnitOf(text) = (IF rate < 1024 THEN "B/s"
                        ELSE IF rate < 1024 ^ 2 THEN "KB/s"
                        ELSE IF rate < 1024 ^ 3 THEN "MB/s"
                        ELSE "GB/s")

C10_Witness == rate = 1024 /\ text = "1.0 KB/s"

\* the position of the first ch in t from position i on, 0 when there is none
RECURSIVE FindFrom(_, _, _)
FindFrom(t, ch, i) ==
    IF i > Len(t) THEN 0
    ELSE IF SubSeq(t, i, i) = ch THEN i
    ELSE FindFrom(t, ch, i + 1)

Find(t, ch) == FindFrom(t, ch, 1)

Digits == {"0", "1", "2", "3", "4", "5", "6", "7", "8", "9"}

\* the number of digits of t from position i on, up to the first non-digit
RECURSIVE DigitRun(_, _)
DigitRun(t, i) ==
    IF i > Len(t) \/ SubSeq(t, i, i) \notin Digits THEN 0
    ELSE 1 + DigitRun(t, i + 1)

\* the number of decimal places the number printed in t has
DecimalsAt(t, dot) == IF dot = 0 THEN 0 ELSE DigitRun(t, dot + 1)

Decimals(t) == DecimalsAt(t, Find(t, "."))

\* C11 as stated: no decimal place below 1 MB/s (B/s and KB/s), exactly one
\* from 1 MB/s on (MB/s and GB/s).
C11_DecimalsByMegabyte ==
    text # NoText => Decimals(text) = (IF rate < 1024 ^ 2 THEN 0 ELSE 1)

\* C11, amended: _fmt_long prints no decimal place below 1 KB/s and exactly one
\* from 1 KB/s on (KB/s, MB/s and GB/s); it is IOBarsWidget._fmt_short that
\* prints none below 1 MB and exactly one from there on.
C11_DecimalsByUnit ==
    /\ text # NoText => Decimals(text) = (IF rate < 1024 THEN 0 ELSE 1)
    /\ short # NoText => Decimals(short) = (IF rate < 1024 ^ 2 THEN 0 ELSE 1)

C11_Witness == rate = 1536 /\ text = "1.5 KB/s" /\ short = "2K"

\* the natural number a string of digits spells
DigitValue(ch) == CHOOSE d \in 0..9 : Digit(d) = ch

RECURSIVE StrToNat(_)
StrToNat(t) ==
    IF Len(t) = 0 THEN 0
    ELSE 10 * StrToNat(SubSeq(t, 1, Len(t) - 1)) + DigitValue(SubSeq(t, Len(t), Len(t)))

\* t is <digits>.<digit><unit>, the integer part without leading zeros
OneDecimalShape(t, unit, dot) ==
    /\ dot > 1
    /\ DigitRun(t, 1) = dot - 1
    /\ NatToStr(StrToNat(SubSeq(t, 1, dot - 1))) = SubSeq(t, 1, dot - 1)
    /\ DigitRun(t, dot + 1) = 1
    /\ SubSeq(t, dot + 2, Len(t)) = unit

\* the number t prints, in tenths
Tenths(t, dot) == 10 * StrToNat(SubSeq(t, 1, dot - 1)) + StrToNat(SubSeq(t, dot + 1, dot + 1))

\* | a - b | of two naturals
BDist(a, b) == IF BCmp(a, b) >= 0 THEN BSub(a, b) ELSE BSub(b, a)

\* n / 10 is v / 2^k rounded to the nearest tenth, a tie going to the even one:
\* | 20 v - 2 n 2^k | <= 2^k
NearestTenth(v, k, n) ==
    \/ BCmp(BDist(BMulSmall(BFromInt(v), 20), BShl(BFromInt(n), k + 1)), BShl(<<1>>, k)) < 0
    \/ /\ BCmp(BDist(BMulSmall(BFromInt(v), 20), BShl(BFromInt(n), k + 1)), BShl(<<1>>, k)) = 0
       /\ n % 2 = 0

\* t shows v / 2^k with one decimal, followed by unit
ShowsOneDecimal(t, v, k, unit) ==
    /\ OneDecimalShape(t, unit, Find(t, "."))
    /\ NearestTenth(v, k, Tenths(t, Find(t, ".")))

\* C12: for every non-negative integer rate the text is the reference string:
\* the integer and " B/s" below 1024, otherwise the rate divided by the unit
\* size with one decimal and " KB/s", " MB/s" or " GB/s"; 0 gives "0 B/s",
\* 1023 "1023 B/s", 1024 "1.0 KB/s", 1536 "1.5 KB/s" and 1024^3 "1.0 GB/s".
C12_ReferenceString ==
    (text # NoText /\ rate >= 0) =>
        /\ rate < 1024 => text = NatToStr(rate) \o " B/s"
        /\ (1024 <= rate /\ rate < 1024 ^ 2) => ShowsOneDecimal(text, rate, 10, " KB/s")
        /\ (1024 ^ 2 <= rate /\ rate < 1024 ^ 3) => ShowsOneDecimal(text, rate, 20, " MB/s")
        /\ 1024 ^ 3 <= rate => ShowsOneDecimal(text, rate, 30, " GB/s")
        /\ rate = 0 => text = "0 B/s"
        /\ rate = 1023 => text = "1023 B/s"
        /\ rate = 1024 => text = "1.0 KB/s"
        /\ rate = 1536 => text = "1.5 KB/s"
        /\ rate = 1024 ^ 3 => text = "1.0 GB/s"

C12_Witness == rate = 1572864 /\ text = "1.5 MB/s"

\* C13: a negative rate is formatted as 0 is: "0 B/s".
C13_NegativeAsZero ==
    (text # NoText /\ rate < 0) => text = "0 B/s"

(***************************************************************************)
(* Properties of the application, over Spec.                               *)
(***************************************************************************)
\* C14: the disk and network rates _update hands to set_values are never
\* negative, also when a counter went backwards between two ticks; so no IO
\* tile holds, and no draw formats, a negative rate.
C14_RatesNonNegative ==
    /\ \A name \in DOMAIN tiles :
          tiles[name].inner.read_val >= 0 /\ tiles[name].inner.write_val >= 0
    /\ lastDraw.kind = "io" =>
          (SubSeq(lastDraw.rx, 1, 1) # "-" /\ SubSeq(lastDraw.tx, 1, 1) # "-")

\* the network counter went from 3000 back to 500 while 1024 bytes were sent
C14_Witness ==
    /\ "net" \in DOMAIN tiles
    /\ last_net # None /\ last_net.bytes_recv = 500
    /\ tiles["net"].inner.read_val = 0
    /\ tiles["net"].inner.write_val = 1024
    /\ lastDraw.kind = "io" /\ lastDraw.tile = "net" /\ lastDraw.rx = "0 B/s"

(***************************************************************************)
(* Properties of the configuration's life, over SpecConfig.                *)
(***************************************************************************)
\* what a fresh ConfigManager reads from the config file as it is on disk
Persisted(f) == ConfigManager_load(f, THEMES_TABLE)

\* the entry after m in terminal -> gauge -> text -> wave -> glow -> terminal
NextVisMode(m) ==
    CASE m = "terminal" -> "gauge"
      [] m = "gauge"    -> "text"
      [] m = "text"     -> "wave"
      [] m = "wave"     -> "glow"
      [] m = "glow"     -> "terminal"

\* this step handles a click on a regular tile
RegularTileClick ==
    /\ lastEvent'.kind = "tile_click"
    /\ clicks' = clicks + 1
    /\ lastEvent'.tile \notin IOTiles

\* the mode a left click on the tile stores and persists is NextVisMode(from);
\* another button leaves the config and the tile's mode as they are
ClickEffect(name, button, from) ==
    IF button = 1
    THEN /\ DictGet(config'.tile_modes, name, "none") = NextVisMode(from)
         /\ file'.exists
         /\ DictGet(Persisted(file').tile_modes, name, "none") = NextVisMode(from)
    ELSE /\ config' = config
         /\ file' = file

\* C15 as stated: a left click on a regular tile stores and persists the entry
\* of VIS_MODES after the tile's stored mode, after "terminal" when the tile
\* has no stored mode; a click with another button changes nothing.
C15_LeftClickFromTerminal ==
    [][RegularTileClick =>
          ClickEffect(lastEvent'.tile, lastEvent'.button,
                      DictGet(config.tile_modes, lastEvent'.tile, "terminal"))]_vars

\* C15, amended: a left click on a regular tile stores and persists the entry
\* of VIS_MODES after the tile's stored mode, and after the config's default
\* vis_mode when the tile has no stored mode: "terminal" unless the config file
\* set another one; a click with another button changes nothing.
C15_LeftClickFromDefault ==
    [][RegularTileClick =>
          ClickEffect(lastEvent'.tile, lastEvent'.button,
                      DictGet(config.tile_modes, lastEvent'.tile, config.vis_mode))]_vars

\* the cpu tile, stored as glow, was left-clicked and wrapped to terminal
C15_Witness ==
    /\ lastEvent = Event("tile_click", "cpu", 1)
    /\ DictGet(config.tile_modes, "cpu", "none") = "terminal"
    /\ config.theme = "nord"
    /\ file.exists /\ Persisted(file).tile_modes = config.tile_modes

\* C16: after a configure event that reports a position other than the stored
\* one, the config file holds the new window_x and window_y.
C16_PositionSavedOnMove ==
    [][(/\ lastEvent'.kind = "configure"
        /\ (winpos'.x # config.window_x \/ winpos'.y # config.window_y)) =>
          /\ file'.exists
          /\ Persisted(file').window_x = winpos'.x
          /\ Persisted(file').window_y = winpos'.y]_vars

\* C17: once the application is closed, by the close button or by the window
\* being destroyed, the config on disk equals the config in memory, the last
\* window position included.
C17_SavedOnClose ==
    phase = "closed" => Persisted(file) = config

\* C18: on realize the window is moved to (window_x, window_y) exactly when
\* both are >= 0; with no config file they are (-1, -1) and the window stays
\* where it is, as it does when a saved coordinate is negative.
C18_PositionRestoredOnRealize ==
    [][phase = "constructed" =>
          /\ file = NoFile => (config.window_x = -1 /\ config.window_y = -1)
          /\ phase' = "running" =>
               IF config.window_x >= 0 /\ config.window_y >= 0
               THEN winpos' = [x |-> config.window_x, y |-> config.window_y]
               ELSE winpos' = winpos]_vars

C18_Witness ==
    /\ lastEvent.kind = "realize"
    /\ file = SavedFile
    /\ winpos = [x |-> 120, y |-> 80]

\* C19: a fresh ConfigManager loading what save() writes has the same layout,
\* vis_mode, io_mode, theme, autostart, window_x, window_y, tile_order,
\* tile_modes and io_tile_modes.
C19_SaveLoadRoundTrip ==
    ConfigManager_load([exists |-> TRUE, text |-> ConfigManager_save(config)], THEMES)
        = config

\* a config reached by a move, a tile click and the autostart toggle
C19_Witness ==
    /\ config.window_x = 120 /\ config.window_y = 80
    /\ config.autostart
    /\ config.tile_modes = <<[k |-> "cpu", v |-> "gauge"]>>
    /\ Persisted([exists |-> TRUE, text |-> ConfigManager_save(config)]) = config

\* the last value in valid that the lines give key, cur when there is none
RECURSIVE LastValid(_, _, _, _)
LastValid(lines, key, valid, cur) ==
    IF lines = <<>> THEN cur
    ELSE LastValid(Tail(lines), key, valid,
                   IF /\ StartsWith(Strip(Head(lines)), key \o "=")
                      /\ SubSeq(Strip(Head(lines)), Len(key) + 2, Len(Strip(Head(lines))))
                            \in valid
                   THEN SubSeq(Strip(Head(lines)), Len(key) + 2, Len(Strip(Head(lines))))
                   ELSE cur)

\* every window_x and window_y of the file is an integer, so load reads it all
ReadsAll(lines) ==
    \A i \in 1..Len(lines) :
        (StartsWith(Strip(lines[i]), "window_x=") \/ StartsWith(Strip(lines[i]), "window_y="))
            => ~ PyInt(SubSeq(Strip(lines[i]), 10, Len(Strip(lines[i])))).raised

ValidConfig(c) ==
    /\ c.theme \in DOMAIN THEMES
    /\ c.layout \in Range(LAYOUTS)
    /\ c.vis_mode \in Range(VIS_MODES)
    /\ c.io_mode \in Range(IO_MODES)
    /\ \A i \in 1..Len(c.tile_modes) : c.tile_modes[i].v \in Range(VIS_MODES)
    /\ \A i \in 1..Len(c.io_tile_modes) : c.io_tile_modes[i].v \in Range(IO_MODES)

\* right after load, each choice is the last valid value the file gives it
KeepsLastValid(c, lines) ==
    /\ c.theme = LastValid(lines, "theme", DOMAIN THEMES_TABLE, "default")
    /\ c.layout = LastValid(lines, "layout", Range(LAYOUTS), "compact")
    /\ c.vis_mode = LastValid(lines, "vis_mode", Range(VIS_MODES), "terminal")
    /\ c.io_mode = LastValid(lines, "io_mode", Range(IO_MODES), "terminal")

\* C20: in every state the theme is a key of THEMES, the layout is in LAYOUTS,
\* vis_mode and every tile mode are in VIS_MODES, io_mode and every IO tile
\* mode are in IO_MODES; a file value outside these sets was ignored at load
\* and the value before it kept.
C20_ConfigValuesValid ==
    /\ ValidConfig(config)
    /\ (phase = "constructed" /\ file.exists /\ ReadsAll(FileLines(file.text)))
          => KeepsLastValid(config, FileLines(file.text))

\* the hand-edited file was loaded, its invalid values ignored, and the theme
\* cycled once
C20_Witness ==
    /\ lastEvent.kind = "theme_click"
    /\ config.tile_order = <<"cpu", "ram">>
    /\ config.layout = "compact" /\ config.vis_mode = "wave" /\ config.io_mode = "terminal"
    /\ config.theme = "ocean"
    /\ config.tile_modes = <<[k |-> "ram", v |-> "glow"]>>
(***************************************************************************)
(* Properties of the tiles, over SpecConfig.                               *)
(***************************************************************************)
CompactClasses == {"CompactWidget", "CompactIOWidget"}

\* C21: while the layout is "vertical", every tile (cpu, ram, gpu, temp, disk,
\* net) shows a CompactWidget or a CompactIOWidget, after any tile clicks and
\* theme clicks made in that layout.
C21_VerticalShowsCompact ==
    config.layout = "vertical" =>
        /\ DOMAIN tiles = {"cpu", "ram", "gpu", "temp", "disk", "net"}
        /\ \A name \in DOMAIN tiles : tiles[name].inner.cls \in CompactClasses

\* the keys of the two dispatch tables with the class each one names
VisDispatch ==
    {<<"terminal", "TerminalWidget">>, <<"gauge", "GaugeWidget">>, <<"text", "TextWidget">>,
     <<"wave", "WaveWidget">>, <<"glow", "GlowWidget">>}

IoDispatch ==
    {<<"terminal", "IOWidget">>, <<"bars", "IOBarsWidget">>, <<"text", "IOTextWidget">>}

\* the tile's mode is a key of its dispatch table and the tile shows the class
\* that key names
ShowsModeClass(c, name, w) ==
    IF name \in IOTiles THEN <<ConfigManager_get_io_mode(c, name), w.cls>> \in IoDispatch
    ELSE <<ConfigManager_get_tile_mode(c, name), w.cls>> \in VisDispatch

\* C22: the dispatch never takes its default: the layout is always one the
\* builder table has, and in the compact, wide, mini, dashboard and panel
\* layouts every regular tile shows the class its get_tile_mode names and
\* every disk/net tile the class its get_io_mode names, each mode being a key
\* of the table.
C22_DispatchNeverDefaults ==
    /\ config.layout \in Range(LAYOUTS)
    /\ config.layout # "vertical" =>
          \A name \in DOMAIN tiles : ShowsModeClass(config, name, tiles[name].inner)

\* the disk tile, stored as bars, was left-clicked on to text while the cpu
\* tile shows its stored glow
C22_Witness ==
    /\ lastEvent = Event("tile_click", "disk", 1)
    /\ config.layout = "wide"
    /\ tiles["disk"].inner.cls = "IOTextWidget"
    /\ tiles["cpu"].inner.cls = "GlowWidget"

\* C25: the theme held by the inner widget of every tile is THEMES[config.theme],
\* after any theme clicks, layout clicks and tile clicks.
C25_TilesHoldCurrentTheme ==
    /\ config.theme \in DOMAIN THEMES
    /\ \A name \in DOMAIN tiles : tiles[name].inner.theme = config.theme

\* the cpu tile was rebuilt by a click, then the theme went on from nord to
\* purple on all tiles
C25_Witness ==
    /\ lastEvent.kind = "theme_click"
    /\ clicks = 2
    /\ config.theme = "purple"
    /\ tiles["cpu"].inner = NewWidget("TerminalWidget", "purple")
    /\ tiles["disk"].inner.theme = "purple"

(***************************************************************************)
(* Properties of load and set_autostart, over SpecConfig.                  *)
(***************************************************************************)
\* int() raises on this line of the file
Malformed(line) == ~ ReadsAll(<<line>>)

\* the lines before the first one int() raises on
RECURSIVE WellFormedPrefix(_)
WellFormedPrefix(lines) ==
    IF lines = <<>> \/ Malformed(Head(lines)) THEN <<>>
    ELSE <<Head(lines)>> \o WellFormedPrefix(Tail(lines))

\* the last integer the lines give to key, cur when there is none
RECURSIVE LastInt(_, _, _)
LastInt(lines, key, cur) ==
    IF lines = <<>> THEN cur
    ELSE LastInt(Tail(lines), key,
                 IF StartsWith(Strip(Head(lines)), key \o "=")
                 THEN PyInt(SubSeq(Strip(Head(lines)), Len(key) + 2,
                                   Len(Strip(Head(lines))))).value
                 ELSE cur)

\* the last value the lines give to autostart, FALSE when there is none
RECURSIVE LastFlag(_, _)
LastFlag(lines, cur) ==
    IF lines = <<>> THEN cur
    ELSE LastFlag(Tail(lines),
                  IF StartsWith(Strip(Head(lines)), "autostart=")
                  THEN Strip(Head(lines)) = "autostart=true"
                  ELSE cur)

\* c is what the lines before the first malformed one give, defaults elsewhere
LoadedFromPrefix(c, good) ==
    /\ KeepsLastValid(c, good)
    /\ c.window_x = LastInt(good, "window_x", -1)
    /\ c.window_y = LastInt(good, "window_y", -1)
    /\ c.autostart = LastFlag(good, FALSE)
    /\ c = Persisted([exists |-> TRUE, text |-> Join("\n", good)])
    /\ \A i \in 1..Len(c.tile_modes) :
          c.tile_modes[i].v = LastValid(good, "tile_" \o c.tile_modes[i].k,
                                        Range(VIS_MODES), "none")
    /\ \A i \in 1..Len(c.io_tile_modes) :
          c.io_tile_modes[i].v = LastValid(good, "io_" \o c.io_tile_modes[i].k,
                                           Range(IO_MODES), "none")

\* C24: load never raises and leaves every field whole: the config after
\* construction is the one the lines before the first malformed line give
\* (a window_x or window_y that is no integer); that line and all later lines
\* are ignored, and a field no earlier line sets has its default.
C24_LoadStopsAtMalformedLine ==
    (phase = "constructed" /\ file.exists) =>
        /\ ValidConfig(config)
        /\ config.window_x \in Int /\ config.window_y \in Int
        /\ LoadedFromPrefix(config, WellFormedPrefix(FileLines(file.text)))

\* the file whose fourth line has window_y=12px was loaded: layout, the cpu
\* mode and window_x of the lines before it, defaults for the rest
C24_Witness ==
    /\ phase = "constructed"
    /\ file = HalfFile
    /\ config = [ConfigDefaults EXCEPT !.layout = "panel", !.window_x = 40,
                                      !.tile_modes = <<[k |-> "cpu", v |-> "gauge"]>>]

\* this step is a toggle of the Autostart item
AutostartStep == lastEvent'.kind = "autostart" /\ clicks' = clicks + 1

\* C28: after set_autostart(enabled), enabled being the item's new state, the
\* desktop file exists exactly if enabled holds, and the flag in memory and
\* the flag in the config file equal enabled, whatever was toggled before and
\* whether the desktop file existed or not.
C28_AutostartFileFollowsFlag ==
    [][AutostartStep =>
          /\ config'.autostart = ~ config.autostart
          /\ desktop' = config'.autostart
          /\ file'.exists
          /\ Persisted(file').autostart = config'.autostart]_vars

\* autostart was enabled and then disabled again: no desktop file, and the
\* flag is off in memory and in the file
C28_Witness ==
    /\ lastEvent.kind = "autostart"
    /\ clicks = 2
    /\ ~ config.autostart
    /\ ~ desktop
    /\ file.exists /\ ~ Persisted(file).autostart

(***************************************************************************)
(* Properties of the timers, over SpecTimer.                               *)
(***************************************************************************)
\* C23: the periodic refresh never stops: the 1000 ms source stays attached
\* whatever a sampling raises, and unless the main loop ends, _update runs
\* again and again.
C23_RefreshNeverStops ==
    /\ []("periodic" \in timers)
    /\ (<>(phase = "closed") \/ []<><<Update>>_vars)

\* after an _update that read a temperature of 105, a later _update took the
\* CPU and GPU readings, divided by zero in the GPU memory block and left the
\* temperature as it was; the periodic timer is still attached
C23_Witness ==
    /\ phase = "running"
    /\ timers = {"periodic"}
    /\ "vram" \in DOMAIN tiles
    /\ tiles["cpu"].inner.value = Dec(751, 10)
    /\ tiles["gpu"].inner.value = FZero
    /\ tiles["temp"].inner.value = FromInt(100)

(***************************************************************************)
(* Properties of the cycle operations, over SpecCycle.                     *)
(***************************************************************************)
Distinct(q) == \A i, j \in 1..Len(q) : i # j => q[i] # q[j]

\* the values an operation gave: entries of its list, all different, the
\* starting value only as the last of a full round, and the full round gives
\* every other entry once on the way
RoundTrip(list, start, seen) ==
    /\ Len(seen) <= Len(list)
    /\ Distinct(seen)
    /\ \A i \in 1..Len(seen) :
          /\ seen[i] \in Range(list)
          /\ seen[i] = start <=> i = Len(list)
    /\ Len(seen) = Len(list) =>
          {seen[i] : i \in 1..(Len(seen) - 1)} = Range(list) \ {start}

\* C26: each cycle operation is a cyclic permutation of its list: cycle_layout
\* applied 6 times, cycle_theme 6 times, cycle_tile_mode(name) 5 times and
\* cycle_io_mode(name) 3 times return to the starting value and give every
\* other value of the list exactly once on the way.
C26_CyclicPermutation ==
    /\ Len(LAYOUTS) = 6 /\ Len(THEME_ORDER) = 6 /\ Len(VIS_MODES) = 5 /\ Len(IO_MODES) = 3
    /\ orbit.op # "none" =>
          /\ RoundTrip(CycleList(orbit.op), orbit.start, orbit.seen)
          /\ CycleValue(config, orbit.op, orbit.name) =
                (IF orbit.seen = <<>> THEN orbit.start ELSE orbit.seen[Len(orbit.seen)])

\* cycle_tile_mode("cpu") went from the stored glow through the four others
\* back to glow
C26_Witness ==
    /\ orbit.op = "tile_mode" /\ orbit.name = "cpu"
    /\ orbit.start = "glow"
    /\ orbit.seen = <<"terminal", "gauge", "text", "wave", "glow">>
    /\ config.layout = "panel"

TileNames == {"cpu", "ram", "gpu", "temp", "swap", "vram", "disk", "net"}

Fields == {"layout", "vis_mode", "io_mode", "theme", "autostart", "tile_modes",
           "io_tile_modes", "window_x", "window_y", "tile_order"}

\* c and d agree on every field but those of the set
SameExcept(c, d, changed) == \A f \in Fields \ changed : c[f] = d[f]

\* the dicts agree on every tile but name
SameOtherTiles(a, b, name) ==
    \A n \in TileNames \ {name} :
        DictHas(a, n) = DictHas(b, n) /\ DictGet(a, n, "none") = DictGet(b, n, "none")

\* what the step of operation op on tile name leaves as it was
CycleFrame(op, name) ==
    CASE op = "tile_mode" -> /\ SameExcept(config, config', {"tile_modes"})
                             /\ SameOtherTiles(config.tile_modes, config'.tile_modes, name)
      [] op = "io_mode"   -> /\ SameExcept(config, config', {"io_tile_modes"})
                             /\ SameOtherTiles(config.io_tile_modes, config'.io_tile_modes, name)
      [] op = "layout"    -> SameExcept(config, config', {"layout"})
      [] op = "theme"     -> SameExcept(config, config', {"theme"})

\* C27: cycle_tile_mode(name) changes only the entry of that tile: the modes of
\* the other tiles, io_tile_modes, vis_mode, io_mode, layout, theme, autostart
\* and the window position stay; cycle_layout and cycle_theme leave every
\* per-tile mode as it is.
C27_CycleChangesOneEntry ==
    [][orbit' # orbit => CycleFrame(orbit.op, orbit.name)]_vars

\* the layout was cycled twice while cpu is stored as gauge and ram as glow
C27_Witness ==
    /\ orbit.op = "layout"
    /\ Len(orbit.seen) = 2
    /\ DictGet(config.tile_modes, "ram", "none") = "glow"
    /\ DictGet(config.io_tile_modes, "net", "none") = "text"

(***************************************************************************)
(* The printed number and the range of its unit, over SpecFmt.             *)
(***************************************************************************)
\* the integer part of the number t starts with
IntegerPart(t) == StrToNat(SubSeq(t, 1, DigitRun(t, 1)))

\* C29: for a non-negative rate, the number printed in the B/s, KB/s and MB/s
\* units is below 1024: rounding never gives 1024 or 1024.0.
C29_NumberBelowUnitRange ==
    (text # NoText /\ rate >= 0 /\ UnitOf(text) \in {"B/s", "KB/s", "MB/s"}) =>
        IntegerPart(text) < 1024
====
